---- MODULE Spec2Model ----
(***************************************************************************)
(* A model of the MeTube upload pipeline (src/src/video_processing.rs),    *)
(* the index it commits to (src/src/data.rs) and the filesystem and        *)
(* external tools it acts on.                                              *)
(*                                                                         *)
(* The library directory is a map from paths to file objects.  A file      *)
(* object carries its bytes and the set of uploads that hold an open       *)
(* handle on it, so that a write through a handle reaches the file the     *)
(* handle was opened on, wherever that file was renamed to, and is lost    *)
(* when the file was unlinked.  upload_time is left out of the records:    *)
(* no modelled operation reads it.                                         *)
(***************************************************************************)
EXTENDS Integers, Sequences, FiniteSets, TLC

\* ------------------------------------------------------------- bounds
MaxChunks == 1
NumTempNames == 2
MaxDurationSteps == 120
MaxViews == 2
MaxLines == 4
MaxTime == 3
MaxTimeout == 2

\* Two uploads, the pairs the properties speak of.
Uploads == {1, 2}
\* The chunk values a stream can deliver.
Bytes == {"a"}
\* Option::None, for the optional strings and paths of the code.
None == "None"
\* Configuration::video_dir.
VideoDir == "video_dir"

\* ------------------------------------------------------- file names
\* A file name is the sequence of its '.'-separated components:
\* "" is <<"">>, "clip.webm" is <<"clip", "webm">>.
EmptyName == <<"">>
FileNames == {EmptyName, <<"clip", "webm">>, <<"clip", "webp">>}
\* Part::filename() is an Option: <<>> stands for an absent file name.
NoFilename == <<>>
PartFileNames == FileNames \cup {NoFilename}

\* Path::extension(): None for an empty name, a name without '.', and a
\* name that starts with '.' and has no other '.'.
Extension(name) ==
    IF Len(name) < 2 \/ (Len(name) = 2 /\ name[1] = "")
    THEN None
    ELSE name[Len(name)]

\* path.extension().or(Some(OsStr::new(""))).unwrap()
ExtOrEmpty(name) == IF Extension(name) = None THEN "" ELSE Extension(name)

\* ------------------------------------------------------------ paths
\* A path is a directory ("" for a relative path), the stem of the file
\* name and its extension ("" for none).
NoPath == [dir |-> "", base |-> <<"none", 0>>, ext |-> ""]
TempBase(n) == <<"temp", n>>
HashBase(h) == <<"hash", h>>

\* Path::new(dir).join(name)
JoinDir(dir, base) == [dir |-> dir, base |-> base, ext |-> ""]
\* Path::new(dir).join(rel): an absolute rel replaces dir.
Join(dir, rel) == IF rel.dir = "" THEN [rel EXCEPT !.dir = dir] ELSE rel
\* Path::with_extension
WithExtension(p, e) == [p EXCEPT !.ext = e]
\* --------------------------------------------------------- contents
\* File bytes: stream chunks, "0" for a hole left by a write past the end
\* of a truncated file, "T" for a thumbnail image, "P" for a partial one.
Code(b) ==
    CASE b = "a" -> 1
      [] b = "b" -> 2
      [] b = "0" -> 3
      [] b = "T" -> 4
      [] b = "P" -> 5

RECURSIVE Digest(_)
\* The identifier derived from the SHA-256 digest of a byte sequence (the
\* hex of its first 6 bytes): distinct sequences get distinct identifiers.
Digest(s) == IF s = <<>> THEN 0 ELSE Code(Head(s)) + 6 * Digest(Tail(s))

ThumbData == <<"T">>
PartialThumbData == <<"P">>

\* ------------------------------------------------------- filesystem
Exists(f, p) == p \in DOMAIN f

\* std::fs::remove_file(p).ok(): gone afterwards, no error when absent.
RemoveFile(f, p) == [q \in (DOMAIN f) \ {p} |-> f[q]]

\* File::create(p) by upload u: creates, or truncates an existing file.
CreateFile(f, p, u) ==
    [q \in (DOMAIN f) \cup {p} |->
        IF q # p THEN f[q]
        ELSE IF p \in DOMAIN f
             THEN [data |-> <<>>, h |-> f[p].h \cup {u}]
             ELSE [data |-> <<>>, h |-> {u}]]

\* A copy: the file stays at from too.
RenameCopies(f, from, to) ==
    [q \in (DOMAIN f) \cup {to} |-> IF q = to THEN f[from] ELSE f[q]]

\* std::fs::rename(from, to), from existing: replaces to when it exists.
Rename(f, from, to) ==
    [q \in ((DOMAIN f) \ {from}) \cup {to} |->
        IF q = to THEN f[from] ELSE f[q]]

Max(a, b) == IF a >= b THEN a ELSE b

\* The bytes of a file after s is written at offset off.
WriteAt(data, off, s) ==
    [i \in 1..Max(Len(data), off + Len(s)) |->
        IF i > off /\ i <= off + Len(s) THEN s[i - off]
        ELSE IF i <= Len(data) THEN data[i]
        ELSE "0"]

\* A write of s at offset off through the handle of upload u.
WriteHandle(f, u, off, s) ==
    IF s = <<>> THEN f
    ELSE [p \in DOMAIN f |->
            IF u \in f[p].h
            THEN [f[p] EXCEPT !.data = WriteAt(f[p].data, off, s)]
            ELSE f[p]]

\* The handle of upload u is closed.
CloseHandle(f, u) == [p \in DOMAIN f |-> [f[p] EXCEPT !.h = @ \ {u}]]

\* ------------------------------------------------------------ video
\* ContainerType::toExtension
toExtension(c) == IF c = "Mp4" THEN "mp4" ELSE "webm"

\* A table that takes every other format name for Mp4.
fromFormatNameLenient(name) ==
    IF name = "matroska,webm" THEN "WebM" ELSE "Mp4"

\* ContainerType::fromFormatName
fromFormatName(name) ==
    CASE name = "mov,mp4,m4a,3gp,3g2,mj2" -> "Mp4"
      [] name = "matroska,webm" -> "WebM"
      [] OTHER -> None

\* Video::new(id, path): the record before the probe fills it.  Durations
\* are in milliseconds; thumbnail_path is <<>> for None, <<p>> for Some(p).
VideoNew(id, path) ==
    [id |-> id, path |-> path, title |-> "", desc |-> "", artist |-> "",
     views |-> 0, container_type |-> "Mp4", original_filename |-> EmptyName,
     duration |-> 0, thumbnail_path |-> <<>>]

NoVideo == VideoNew(0, NoPath)

\* videoPath(video, config)
videoPath(video) == Join(VideoDir, video.path)

\* expectedThumbnailPath(video, config)
expectedThumbnailPath(video) == WithExtension(Join(VideoDir, video.path), "webp")

\* fs: the library directory; videos: the rows of the videos table;
\* up: the uploads; probes: what ffprobe answered for a file content and
\* extension, which it answers again for the same file; call: the last
\* call of a function checked on its own; disk_full: whether the volume of
\* the library directory refuses writes.
VARIABLES fs, videos, up, probes, call, disk_full

vars == <<fs, videos, up, probes, call, disk_full>>

NoCall == [op |-> "none"]

NoUpload ==
    [pc |-> "none", filename |-> NoFilename, temp_file |-> NoPath,
     hashed |-> <<>>, buf |-> <<>>, path |-> NoPath, hash |-> 0,
     original_filename |-> EmptyName, video |-> NoVideo, err |-> "",
     thumb_status |-> ""]

Init ==
    /\ fs = <<>>
    /\ videos = {}
    /\ up = [u \in Uploads |-> NoUpload]
    /\ probes = <<>>
    /\ call = NoCall
    /\ disk_full = FALSE

\* The error is noted and the upload stays in its stage.
AbortAndRetry(u, e) == [up EXCEPT ![u].err = e]

\* The upload ends with an error: what the stage owned is dropped.  The
\* identifier and the path stay, for the properties to name them.
Abort(u, e) ==
    [up EXCEPT ![u] = [NoUpload EXCEPT !.pc = "aborted", !.err = e,
                                       !.hash = up[u].hash,
                                       !.path = up[u].path]]

\* A multipart part arrives for upload u, with or without a file name.
NewUpload(u) ==
    /\ up[u].pc = "none"
    /\ \E name \in PartFileNames :
          up' = [up EXCEPT ![u] = [NoUpload EXCEPT !.pc = "part", !.filename = name]]
    /\ UNCHANGED <<fs, videos, probes, call, disk_full>>

\* --------------------------------------------------------- saveToTemp
\* A check that rejects the empty file name too.
filenameRejectedOrEmpty(name) == name = NoFilename \/ name = EmptyName

\* self.part.filename()...ok_or_else(BAD_REQUEST): is the part rejected?
filenameRejected(name) == name = NoFilename

\* randomTempFilename: the numbers n whose path temp-n does not exist.
randomTempFilename(f) ==
    {n \in 1..NumTempNames : ~Exists(f, JoinDir(VideoDir, TempBase(n)))}

\* The temp path: the random name with the extension of the client's name.
tempFileFor(n, name) ==
    WithExtension(JoinDir(VideoDir, TempBase(n)), ExtOrEmpty(name))

\* No cleanup: the temp file stays.
noCleanup(f, p) == f

\* The cleanup when the stream yields an error.
readErrorCleanup(f, temp) == RemoveFile(f, temp)

\* The cleanup when write_all fails.
writeErrorCleanup(f, temp) == RemoveFile(f, temp)

\* The offset of the handle of upload u: what it has written to the file.
Offset(u) == Len(up[u].hashed) - Len(up[u].buf)

\* BufWriter dropped: the buffered bytes are flushed, and an error of
\* that flush is ignored.
DropWriter(f, u) ==
    CloseHandle(IF disk_full THEN f ELSE WriteHandle(f, u, Offset(u), up[u].buf), u)

\* The file name is checked, the temp name chosen and the file created.
saveToTempOpen(u) ==
    /\ up[u].pc = "part"
    /\ IF filenameRejected(up[u].filename)
       THEN /\ up' = Abort(u, "NoFilename")
            /\ UNCHANGED fs
       ELSE \E n \in randomTempFilename(fs), created \in BOOLEAN :
               LET temp == tempFileFor(n, up[u].filename) IN
               IF created
               THEN /\ fs' = CreateFile(fs, temp, u)
                    /\ up' = [up EXCEPT ![u].pc = "receiving",
                                        ![u].temp_file = temp]
               ELSE /\ up' = Abort(u, "OpenTemp")
                    /\ UNCHANGED fs
    /\ UNCHANGED <<videos, probes, call, disk_full>>

\* One item of the stream: an error, or a chunk that is hashed and then
\* written.  write_all keeps a chunk that fits in the buffer ("buffer");
\* for one that does not it flushes the buffer and keeps the chunk
\* ("flush") or writes both ("through"), and fails when the volume
\* refuses the write ("error").
saveToTempChunk(u) ==
    /\ up[u].pc = "receiving"
    /\ Len(up[u].hashed) < MaxChunks
    /\ \E item \in Bytes \cup {"StreamErr"},
          w \in {"buffer", "flush", "through"} :
          LET self == up[u] IN
          IF item = "StreamErr"
          THEN /\ w = "buffer"
               /\ fs' = DropWriter(readErrorCleanup(fs, self.temp_file), u)
               /\ up' = Abort(u, "ReadStream")
          ELSE IF w = "buffer"
          THEN /\ fs' = fs
               /\ up' = [up EXCEPT ![u].hashed = Append(@, item),
                                   ![u].buf = Append(@, item)]
          ELSE IF disk_full
          THEN /\ w = "through"
               /\ fs' = writeErrorCleanup(DropWriter(fs, u), self.temp_file)
               /\ up' = Abort(u, "WriteTemp")
          ELSE IF w = "flush"
          THEN /\ self.buf # <<>>
               /\ fs' = WriteHandle(fs, u, Offset(u), self.buf)
               /\ up' = [up EXCEPT ![u].hashed = Append(@, item),
                                   ![u].buf = <<item>>]
          ELSE /\ fs' = WriteHandle(fs, u, Offset(u), Append(self.buf, item))
               /\ up' = [up EXCEPT ![u].hashed = Append(@, item),
                                   ![u].buf = <<>>]
    /\ UNCHANGED <<videos, probes, call, disk_full>>

\* The stream ends: the digest is finalized and the RawVideo returned; the
\* writer is dropped on return.
saveToTempEnd(u) ==
    /\ up[u].pc = "receiving"
    /\ fs' = DropWriter(fs, u)
    /\ up' = [up EXCEPT ![u] = [NoUpload EXCEPT
                        !.pc = "raw",
                        !.path = up[u].temp_file,
                        !.hash = Digest(up[u].hashed),
                        !.original_filename = up[u].filename]]
    /\ UNCHANGED <<videos, probes, call, disk_full>>

\* ------------------------------------------------------ moveToLibrary
\* A destination without the extension.
libraryPathNoExtension(hash, path) == JoinDir(VideoDir, HashBase(hash))

\* The destination: <video_dir>/<hash> with the extension of the temp path.
libraryPath(hash, path) == WithExtension(JoinDir(VideoDir, HashBase(hash)), path.ext)

\* std::fs::rename(from, to): what it can do and answer.  It fails when
\* from does not exist, and can fail for a reason outside the files of the
\* library (the permissions of the directory, a directory at to), leaving
\* both paths as they are; else the file is moved, replacing a file at to.
renameResult(f, from, to) ==
    {[ok |-> FALSE, fs |-> f]} \cup
    (IF Exists(f, from) THEN {[ok |-> TRUE, fs |-> Rename(f, from, to)]} ELSE {})

\* A cleanup that forgets the temp file.
renameErrorCleanupDestinationOnly(f, temp, video_file) == RemoveFile(f, video_file)

\* The cleanup when the rename fails.
renameErrorCleanup(f, temp, video_file) ==
    RemoveFile(RemoveFile(f, temp), video_file)

moveToLibrary(u) ==
    /\ up[u].pc = "raw"
    /\ LET self == up[u]
           video_file == libraryPath(self.hash, self.path)
       IN \E r \in renameResult(fs, self.path, video_file) :
          IF r.ok
          THEN /\ fs' = r.fs
               /\ up' = [up EXCEPT ![u].pc = "moved", ![u].path = video_file]
          ELSE /\ fs' = renameErrorCleanup(r.fs, self.path, video_file)
               /\ up' = Abort(u, "Rename")
    /\ UNCHANGED <<videos, probes, call, disk_full>>

\* --------------------------------------------------- makeRelativePath
\* A strip that succeeds for a path outside the directory too.
StripPrefixLenient(p, dir) == [ok |-> TRUE, path |-> [p EXCEPT !.dir = ""]]

\* Path::strip_prefix(video_dir)
StripPrefix(p, dir) ==
    IF p.dir = dir THEN [ok |-> TRUE, path |-> [p EXCEPT !.dir = ""]]
    ELSE [ok |-> FALSE, path |-> p]

\* What makeRelativePath answers for the RawVideo at path, and the files it
\* leaves: canonicalize fails on a missing file; a canonical path outside
\* the canonical video_dir is an error; else the path is the remainder.
\* Paths are written canonically already.
makeRelativePathResult(f, path) ==
    LET stripped == StripPrefix(path, VideoDir) IN
    IF ~Exists(f, path)
    THEN [ok |-> FALSE, err |-> "Canonicalize", fs |-> RemoveFile(f, path),
          path |-> path]
    ELSE IF ~stripped.ok
    THEN [ok |-> FALSE, err |-> "NotInVideoDir", fs |-> RemoveFile(f, path),
          path |-> path]
    ELSE [ok |-> TRUE, err |-> "", fs |-> f, path |-> stripped.path]

makeRelativePath(u) ==
    /\ up[u].pc = "moved"
    /\ LET r == makeRelativePathResult(fs, up[u].path) IN
       /\ fs' = r.fs
       /\ up' = IF r.ok
                THEN [up EXCEPT ![u].pc = "relative", ![u].path = r.path]
                ELSE Abort(u, r.err)
    /\ UNCHANGED <<videos, probes, call, disk_full>>

\* ------------------------------------------------------ probeMetadata
\* A section of the probe output: its name and its KEY=VALUE mapping.
Section(name, md) == [name |-> name, metadata |-> md]

\* A line of the probe output is the sequence of its characters; a section
\* name, a key and a value are the characters captured.
NoSlash(chars) == \A i \in 1..Len(chars) : chars[i] # "/"

\* ^\[([^/]+)\]$ : the capture as <<name>>, or <<>> when the line does not
\* match.
sec_begin_pattern(line) ==
    IF /\ Len(line) >= 3
       /\ line[1] = "[" /\ line[Len(line)] = "]"
       /\ NoSlash(SubSeq(line, 2, Len(line) - 1))
    THEN <<SubSeq(line, 2, Len(line) - 1)>>
    ELSE <<>>

\* ^\[/([^/]+)\]$
sec_end_pattern(line) ==
    IF /\ Len(line) >= 4
       /\ line[1] = "[" /\ line[2] = "/" /\ line[Len(line)] = "]"
       /\ NoSlash(SubSeq(line, 3, Len(line) - 1))
    THEN <<SubSeq(line, 3, Len(line) - 1)>>
    ELSE <<>>

HasEquals(line) == \E i \in 1..Len(line) : line[i] = "="

FirstEquals(line) ==
    CHOOSE i \in 1..Len(line) :
       line[i] = "=" /\ \A j \in 1..(i - 1) : line[j] # "="

\* A split that takes a line without '=' as a key with an empty value.
splitLenient(line) ==
    IF HasEquals(line)
    THEN [ok |-> TRUE, key |-> SubSeq(line, 1, FirstEquals(line) - 1),
          value |-> SubSeq(line, FirstEquals(line) + 1, Len(line))]
    ELSE [ok |-> TRUE, key |-> line, value |-> <<>>]

\* A split at the last '=' of the line.
splitAtLastEquals(line) ==
    LET last == CHOOSE i \in 1..Len(line) :
                   line[i] = "=" /\ \A j \in (i + 1)..Len(line) : line[j] # "="
    IN IF HasEquals(line)
       THEN [ok |-> TRUE, key |-> SubSeq(line, 1, last - 1),
             value |-> SubSeq(line, last + 1, Len(line))]
       ELSE [ok |-> FALSE, key |-> line, value |-> <<>>]

\* line.splitn(2, "="): the key and the value around the first '=', and an
\* error when there is no second piece.
splitKeyValue(line) ==
    IF HasEquals(line)
    THEN [ok |-> TRUE, key |-> SubSeq(line, 1, FirstEquals(line) - 1),
          value |-> SubSeq(line, FirstEquals(line) + 1, Len(line))]
    ELSE [ok |-> FALSE, key |-> line, value |-> <<>>]

RECURSIVE parseLines(_, _, _)
\* The loop of parseProbeOutput over the lines left, with the sections
\* pushed so far and current_section.
parseLines(lines, result, current_section) ==
    IF lines = <<>> THEN [ok |-> TRUE, sections |-> result]
    ELSE LET line == Head(lines)
             begin == sec_begin_pattern(line)
             end == sec_end_pattern(line)
             kv == splitKeyValue(line)
         IN IF line = <<>>
            THEN parseLines(Tail(lines), result, current_section)
            ELSE IF begin # <<>>
            THEN parseLines(Tail(lines), result, Section(begin[1], <<>>))
            ELSE IF end # <<>>
            THEN IF end[1] # current_section.name
                 THEN [ok |-> FALSE, sections |-> <<>>]
                 ELSE parseLines(Tail(lines), Append(result, current_section),
                                 current_section)
            ELSE IF ~kv.ok THEN [ok |-> FALSE, sections |-> <<>>]
            ELSE parseLines(Tail(lines), result,
                            [current_section EXCEPT
                                !.metadata = (kv.key :> kv.value) @@ @])

\* parseProbeOutput(output), output as the sequence of its lines.
parseProbeOutput(output) == parseLines(output, <<>>, Section(<<>>, <<>>))

WebMFormat == "format_name" :> "matroska,webm"

\* What parseProbeOutput hands to fillProbedMetadata for the files of the
\* uploads, one per kind of probe output: no section, a complete FORMAT
\* section, and a FORMAT section of an unsupported container.
ProbeOutputs ==
    { <<>>,
      <<Section("FORMAT", WebMFormat @@ "duration" :> "45.000000"
                          @@ "TAG:title" :> "T")>>,
      <<Section("FORMAT", "format_name" :> "avi" @@ "duration" :> "45.000000")>> }

\* A parse that takes text that is no number as zero seconds.
parseSecondsDefault(value) ==
    CASE value = "45.000000" -> [ok |-> TRUE, ms |-> 45000]
      [] value = "30.000000" -> [ok |-> TRUE, ms |-> 30000]
      [] value = "10.000000" -> [ok |-> TRUE, ms |-> 10000]
      [] OTHER -> [ok |-> TRUE, ms |-> 0]

\* str::parse::<f64>() of a duration, in milliseconds.
parseSeconds(value) ==
    CASE value = "45.000000" -> [ok |-> TRUE, ms |-> 45000]
      [] value = "30.000000" -> [ok |-> TRUE, ms |-> 30000]
      [] value = "10.000000" -> [ok |-> TRUE, ms |-> 10000]
      [] OTHER -> [ok |-> FALSE, ms |-> 0]

\* The first of the keys that the mapping has, or None.
FirstKey(md, keys) ==
    IF \E i \in 1..Len(keys) : keys[i] \in DOMAIN md
    THEN keys[CHOOSE i \in 1..Len(keys) :
                 /\ keys[i] \in DOMAIN md
                 /\ \A j \in 1..(i - 1) : keys[j] \notin DOMAIN md]
    ELSE None

\* A field set from the first of the keys present, else left as it is.
FromTags(md, keys, old) ==
    IF FirstKey(md, keys) = None THEN old ELSE md[FirstKey(md, keys)]

\* The body of the loop of fillProbedMetadata for one FORMAT section.
fillFromFormat(video, md) ==
    IF "format_name" \notin DOMAIN md THEN [ok |-> FALSE, video |-> video]
    ELSE IF fromFormatName(md["format_name"]) = None
    THEN [ok |-> FALSE, video |-> video]
    ELSE IF "duration" \notin DOMAIN md THEN [ok |-> FALSE, video |-> video]
    ELSE IF ~parseSeconds(md["duration"]).ok THEN [ok |-> FALSE, video |-> video]
    ELSE [ok |-> TRUE,
          video |-> [video EXCEPT
             !.container_type = fromFormatName(md["format_name"]),
             !.duration = parseSeconds(md["duration"]).ms,
             !.title = FromTags(md, <<"TAG:title", "TAG:TITLE">>, @),
             !.desc = FromTags(md, <<"TAG:comment", "TAG:COMMENT">>, @),
             !.artist = FromTags(md, <<"TAG:artist", "TAG:author",
                                       "TAG:ARTIST", "TAG:AUTHOR">>, @)]]

RECURSIVE fillProbedMetadata(_, _)
fillProbedMetadata(video, metadata) ==
    IF metadata = <<>> THEN [ok |-> TRUE, video |-> video]
    ELSE IF Head(metadata).name = "FORMAT"
    THEN LET r == fillFromFormat(video, Head(metadata).metadata)
         IN IF r.ok THEN fillProbedMetadata(r.video, Tail(metadata)) ELSE r
    ELSE fillProbedMetadata(video, Tail(metadata))

\* What identifies a file to ffprobe: its bytes and its extension.
ProbeKey(f, p) == <<f[p].data, p.ext>>

\* probeVideo: the results ffprobe and parseProbeOutput can give for the
\* file at p.  ffprobe fails on a file that does not exist, and answers
\* for a file it has seen what it answered before.
probeVideo(f, p, seen) ==
    IF ~Exists(f, p) THEN {[ok |-> FALSE, metadata |-> <<>>]}
    ELSE IF ProbeKey(f, p) \in DOMAIN seen THEN {seen[ProbeKey(f, p)]}
    ELSE {[ok |-> FALSE, metadata |-> <<>>]} \cup
         {[ok |-> TRUE, metadata |-> m] : m \in ProbeOutputs}

\* The answers of ffprobe so far, with the one for the file at p.
Remember(seen, f, p, probed) ==
    IF Exists(f, p) THEN (ProbeKey(f, p) :> probed) @@ seen ELSE seen

\* The cleanup when probeVideo or fillProbedMetadata fails.
probeErrorCleanup(f, p) == RemoveFile(f, p)

probeMetadata(u) ==
    /\ up[u].pc = "relative"
    /\ LET self == up[u]
           video == [VideoNew(self.hash, self.path) EXCEPT
                        !.original_filename = self.original_filename]
           full == Join(VideoDir, self.path)
       IN \E probed \in probeVideo(fs, full, probes) :
             LET filled == fillProbedMetadata(video, probed.metadata) IN
             /\ probes' = Remember(probes, fs, full, probed)
             /\ IF ~probed.ok
                THEN /\ fs' = probeErrorCleanup(fs, full)
                     /\ up' = Abort(u, "Probe")
                ELSE IF ~filled.ok
                THEN /\ fs' = probeErrorCleanup(fs, full)
                     /\ up' = Abort(u, "Fill")
                ELSE /\ fs' = fs
                     /\ up' = [up EXCEPT ![u].pc = "probed",
                                         ![u].original_filename = EmptyName,
                                         ![u].video = filled.video]
    /\ UNCHANGED <<videos, call, disk_full>>

\* -------------------------------------------------- generateThumbnail
\* Duration::seconds(30), in milliseconds.
ThirtySeconds == 30000

\* The fixed offset from 30 seconds on.
fixedOffsetFromThirty(duration) == duration >= ThirtySeconds

\* Is the capture offset the fixed one?
fixedOffset(duration) == duration > ThirtySeconds

\* thumb_time_sec, in microseconds.
thumbTimeSec(duration) ==
    IF fixedOffset(duration) THEN 10000000 ELSE (duration * 1000) \div 3

\* Which rule gave the capture offset.
offsetRule(duration) == IF fixedOffset(duration) THEN "fixed" ELSE "third"

\* generateThumbnail of app.rs, the older upload handler: the same rule.
appFixedOffset(duration) == duration > ThirtySeconds

appThumbTimeSec(duration) ==
    IF appFixedOffset(duration) THEN 10000000 ELSE (duration * 1000) \div 3

appOffsetRule(duration) == IF appFixedOffset(duration) THEN "fixed" ELSE "third"

\* A file written by an external tool: created, or truncated and rewritten.
WriteFile(f, p, data) ==
    [q \in (DOMAIN f) \cup {p} |->
        IF q # p THEN f[q]
        ELSE [data |-> data, h |-> IF p \in DOMAIN f THEN f[p].h ELSE {}]]

\* What ffmpeg can do and answer: it cannot be started ("spawn_error"),
\* exits non-zero leaving the output path alone ("nonzero") or a partial
\* output behind ("nonzero_partial"), or writes the image ("success").  It
\* reads the input before it opens the output, and refuses an output that
\* is its input.
ffmpegOutcomes(f, input, output) ==
    {[status |-> "spawn_error", fs |-> f], [status |-> "nonzero", fs |-> f]} \cup
    (IF Exists(f, input) /\ input # output
     THEN {[status |-> "nonzero_partial", fs |-> WriteFile(f, output, PartialThumbData)],
           [status |-> "success", fs |-> WriteFile(f, output, ThumbData)]}
     ELSE {})

\* A thumbnail path set whatever ffmpeg answered.
thumbnailResultAlways(video, status) ==
    [video EXCEPT !.thumbnail_path = <<WithExtension(video.path, "webp")>>]

\* The record generateThumbnail returns for an exit status of ffmpeg.
thumbnailResult(video, status) ==
    IF status = "success"
    THEN [video EXCEPT !.thumbnail_path = <<WithExtension(video.path, "webp")>>]
    ELSE video

generateThumbnail(u) ==
    /\ up[u].pc = "probed"
    /\ LET self == up[u].video IN
       \E o \in ffmpegOutcomes(fs, videoPath(self), expectedThumbnailPath(self)) :
          /\ fs' = o.fs
          /\ up' = [up EXCEPT ![u].pc = "thumbnailed",
                              ![u].video = thumbnailResult(self, o.status),
                              ![u].thumb_status = o.status]
    /\ UNCHANGED <<videos, probes, call, disk_full>>

\* ------------------------------------------------------ addToDatabase
\* Duration::as_seconds_f64: the REAL of the duration column, as its whole
\* seconds and its thousandths.
asSecondsF64(ms) == [secs |-> ms \div 1000, millis |-> ms % 1000]

\* Duration::seconds_f64 of the REAL read back.
secondsF64(real) == real.secs * 1000 + real.millis

\* A row that takes the views of the Video in memory.
RowKeepingViews(vid) ==
    [id |-> vid.id, path |-> vid.path, title |-> vid.title, desc |-> vid.desc,
     artist |-> vid.artist, views |-> vid.views,
     container_type |-> toExtension(vid.container_type),
     original_filename |-> vid.original_filename,
     duration |-> asSecondsF64(vid.duration),
     thumbnail_path |-> vid.thumbnail_path]

\* A row written without the thumbnail_path column.
RowWithoutThumbnail(vid) ==
    [id |-> vid.id, path |-> vid.path, title |-> vid.title, desc |-> vid.desc,
     artist |-> vid.artist, views |-> 0,
     container_type |-> toExtension(vid.container_type),
     original_filename |-> vid.original_filename,
     duration |-> asSecondsF64(vid.duration), thumbnail_path |-> <<>>]

\* The row of the videos table that addVideo inserts for a Video.
Row(vid) ==
    [id |-> vid.id, path |-> vid.path, title |-> vid.title, desc |-> vid.desc,
     artist |-> vid.artist, views |-> 0,
     container_type |-> toExtension(vid.container_type),
     original_filename |-> vid.original_filename,
     duration |-> asSecondsF64(vid.duration),
     thumbnail_path |-> vid.thumbnail_path]

\* A table without the primary key: only the path is unique.
insertAllowedNoKey(rows, row) == \A r \in rows : r.path # row.path

\* id TEXT PRIMARY KEY, path TEXT UNIQUE: may the row be inserted?
insertAllowed(rows, row) ==
    \A r \in rows : r.id # row.id /\ r.path # row.path

\* An insert of the record as it was before the probe filled it.
addVideoBare(rows, vid) ==
    IF insertAllowed(rows, Row(vid))
    THEN [ok |-> TRUE, rows |-> rows \cup {Row(VideoNew(vid.id, vid.path))}]
    ELSE [ok |-> FALSE, rows |-> rows]

\* Manager::addVideo
addVideo(rows, vid) ==
    IF insertAllowed(rows, Row(vid))
    THEN [ok |-> TRUE, rows |-> rows \cup {Row(vid)}]
    ELSE [ok |-> FALSE, rows |-> rows]

\* ContainerType::fromExtension, of the lower-cased text of the column.
fromExtension(ext) ==
    CASE ext = "mp4" -> "Mp4"
      [] ext = "webm" -> "WebM"
      [] OTHER -> None

\* Manager::row2Video: the Video read back from a row; an error when the
\* container_type column is no known extension.
row2Video(row) ==
    IF fromExtension(row.container_type) = None
    THEN [ok |-> FALSE, video |-> NoVideo]
    ELSE [ok |-> TRUE,
          video |-> [row EXCEPT !.container_type = fromExtension(row.container_type),
                                !.duration = secondsF64(row.duration)]]

\* Manager::findVideoByID: Ok(None) as <<>>, Ok(Some(v)) as <<v>>, and the
\* error of row2Video.
findVideoByID(rows, id) ==
    IF \A r \in rows : r.id # id THEN [ok |-> TRUE, video |-> <<>>]
    ELSE LET v == row2Video(CHOOSE r \in rows : r.id = id)
         IN [ok |-> v.ok, video |-> IF v.ok THEN <<v.video>> ELSE <<>>]

\* Manager::getVideos: the records a reader gets over all pages, whatever
\* their order.
getVideos(rows) == {row2Video(r).video : r \in {q \in rows : row2Video(q).ok}}

\* An update whose count of affected rows is not checked.
increaseViewCountUnchecked(rows, id) ==
    [ok |-> TRUE,
     rows |-> {IF r.id = id THEN [r EXCEPT !.views = @ + 1] ELSE r : r \in rows}]

\* Manager::increaseViewCount: UPDATE videos SET views = views + 1 WHERE
\* id=?, and an error unless one row was affected.
increaseViewCount(rows, id) ==
    [ok |-> Cardinality({r \in rows : r.id = id}) = 1,
     rows |-> {IF r.id = id THEN [r EXCEPT !.views = @ + 1] ELSE r : r \in rows}]

\* The cleanup when addVideo fails.
insertErrorCleanup(f, p) == RemoveFile(f, p)

addToDatabase(u) ==
    /\ up[u].pc = "thumbnailed"
    /\ LET self == up[u].video
           r == addVideo(videos, self)
       IN IF r.ok
          THEN /\ videos' = r.rows
               /\ fs' = fs
               /\ up' = [up EXCEPT ![u].pc = "committed",
                                   ![u].video = NoVideo,
                                   ![u].thumb_status = ""]
          ELSE /\ videos' = videos
               /\ fs' = insertErrorCleanup(fs, videoPath(self))
               /\ up' = Abort(u, "Insert")
    /\ UNCHANGED <<probes, call, disk_full>>

\* -------------------------------------------------------- the volume
\* The volume fills up: writes fail from now on.
DiskFills ==
    /\ ~disk_full
    /\ disk_full' = TRUE
    /\ UNCHANGED <<fs, videos, up, probes, call>>

\* Space is freed: writes succeed again.
DiskFrees ==
    /\ disk_full
    /\ disk_full' = FALSE
    /\ UNCHANGED <<fs, videos, up, probes, call>>

\* ---------------------------------------------------- specifications
Step(u) ==
    \/ NewUpload(u)
    \/ saveToTempOpen(u)
    \/ saveToTempChunk(u)
    \/ saveToTempEnd(u)
    \/ moveToLibrary(u)
    \/ makeRelativePath(u)
    \/ probeMetadata(u)
    \/ generateThumbnail(u)
    \/ addToDatabase(u)

\* Uploads run concurrently: their steps interleave in any order.
Next ==
    \/ \E u \in Uploads : Step(u)
    \/ DiskFills
    \/ DiskFrees

Spec == Init /\ [][Next]_vars

Terminal(u) == up[u].pc \in {"none", "committed", "aborted"}

\* Uploads run one after the other: an upload acts only while no other
\* upload is in flight.
Alone(u) == \A v \in Uploads \ {u} : Terminal(v)

SeqNext ==
    \/ DiskFills
    \/ DiskFrees
    \/ \E u \in Uploads :
       \/ Alone(u) /\ NewUpload(u)
       \/ Alone(u) /\ saveToTempOpen(u)
       \/ Alone(u) /\ saveToTempChunk(u)
       \/ Alone(u) /\ saveToTempEnd(u)
       \/ Alone(u) /\ moveToLibrary(u)
       \/ Alone(u) /\ makeRelativePath(u)
       \/ Alone(u) /\ probeMetadata(u)
       \/ Alone(u) /\ generateThumbnail(u)
       \/ Alone(u) /\ addToDatabase(u)

SeqSpec == Init /\ [][SeqNext]_vars

\* The stages of upload u once its part has arrived.  The stream ends and
\* the external tools return: a stage that can run does run.
Run(u) ==
    \/ saveToTempOpen(u)
    \/ saveToTempChunk(u)
    \/ saveToTempEnd(u)
    \/ moveToLibrary(u)
    \/ makeRelativePath(u)
    \/ probeMetadata(u)
    \/ generateThumbnail(u)
    \/ addToDatabase(u)

LiveSpec == Spec /\ \A u \in Uploads : WF_vars(Run(u))

\* The capture offset computed on its own, for durations in steps of half a
\* second.
Durations == {k * 500 : k \in 0..MaxDurationSteps}

thumbTimeCall ==
    /\ \E d \in Durations :
          call' = [op |-> "generateThumbnail", duration |-> d,
                   rule |-> offsetRule(d), thumb_time_sec |-> thumbTimeSec(d)]
    /\ UNCHANGED <<fs, videos, up, probes, disk_full>>

appThumbTimeCall ==
    /\ \E d \in Durations :
          call' = [op |-> "app_generateThumbnail", duration |-> d,
                   rule |-> appOffsetRule(d),
                   thumb_time_sec |-> appThumbTimeSec(d)]
    /\ UNCHANGED <<fs, videos, up, probes, disk_full>>

ThumbNext == thumbTimeCall \/ appThumbTimeCall

ThumbSpec == Init /\ [][ThumbNext]_vars

\* The operations of the index on their own: records are inserted and
\* views counted, for identifiers with and without a row.
Ids == {1, 2}

\* The Videos handed to addVideo: whatever views the value in memory holds.
VideosToAdd ==
    {[VideoNew(id, [dir |-> "", base |-> HashBase(id), ext |-> e])
         EXCEPT !.title = t, !.views = n] :
     id \in Ids, e \in {"", "webm"}, t \in {"", "T"}, n \in {0, 7}}

addVideoCall ==
    /\ \E vid \in VideosToAdd :
          LET r == addVideo(videos, vid) IN
          /\ videos' = r.rows
          /\ call' = [op |-> "addVideo", id |-> vid.id, ok |-> r.ok]
    /\ UNCHANGED <<fs, up, probes, disk_full>>

increaseViewCountCall ==
    /\ \E id \in Ids :
          LET r == increaseViewCount(videos, id) IN
          /\ \A v \in videos : v.id = id => v.views < MaxViews
          /\ videos' = r.rows
          /\ call' = [op |-> "increaseViewCount", id |-> id, ok |-> r.ok]
    /\ UNCHANGED <<fs, up, probes, disk_full>>

IndexNext == addVideoCall \/ increaseViewCountCall

IndexSpec == Init /\ [][IndexNext]_vars

\* The parser on its own, over the probe outputs of up to MaxLines lines:
\* empty lines, begin and end markers of two sections, KEY=VALUE lines and
\* a line without '='.
Lines ==
    { <<>>,
      <<"[", "F", "]">>, <<"[", "G", "]">>,
      <<"[", "/", "F", "]">>, <<"[", "/", "G", "]">>,
      <<"k", "=", "v">>, <<"k", "=", "v", "=", "w">>, <<"t", "=">>,
      <<"j">> }

\* The probe output parsed by the last call, <<>> before the first.
LastOutput == IF call.op = "parseProbeOutput" THEN call.output ELSE <<>>

\* parseProbeOutput is called on the last output with one more line.
parseProbeOutputCall ==
    /\ Len(LastOutput) < MaxLines
    /\ \E line \in Lines :
          call' = [op |-> "parseProbeOutput",
                   output |-> Append(LastOutput, line),
                   result |-> parseProbeOutput(Append(LastOutput, line))]
    /\ UNCHANGED <<fs, videos, up, probes, disk_full>>

ParseSpec == Init /\ [][parseProbeOutputCall]_vars

\* probeMetadata on its own, for the answers of the probe: a failure, or
\* parsed output of no section, one FORMAT section, or a STREAM section
\* and a FORMAT section, whose keys are present or absent one by one.
Opt(key, value) == IF value = None THEN <<>> ELSE key :> value

\* A tag under the key in the casing the file's muxer wrote, or no tag.
Tag(key, value) == IF key = None THEN <<>> ELSE key :> value

TitleKeys == {"TAG:title", "TAG:TITLE", "TAG:Title"}
CommentKeys == {"TAG:comment", "TAG:COMMENT", "TAG:Comment"}
ArtistKeys == {"TAG:artist", "TAG:author", "TAG:ARTIST", "TAG:AUTHOR",
               "TAG:Artist", "TAG:Author"}

FormatMaps ==
    {Opt("format_name", f) @@ Opt("duration", d)
        @@ Tag(tk, "T") @@ Tag(ck, "C") @@ Tag(ak, "A") :
        f \in {None, "mov,mp4,m4a,3gp,3g2,mj2", "matroska,webm", "avi"},
        d \in {None, "45.000000", "x"},
        tk \in TitleKeys \cup {None},
        ck \in CommentKeys \cup {None},
        ak \in ArtistKeys \cup {None}}

ProbedSections ==
    {<<>>, <<Section("STREAM", "codec_name" :> "av1")>>}
           \cup {<<Section("FORMAT", m)>> : m \in FormatMaps}
           \cup {<<Section("STREAM", "codec_name" :> "av1"), Section("FORMAT", m)>> :
                    m \in FormatMaps}

ProbeAnswers ==
    {[ok |-> FALSE, metadata |-> <<>>]} \cup
    {[ok |-> TRUE, metadata |-> m] : m \in ProbedSections}

probeMetadataCall ==
    /\ call = NoCall
    /\ \E ext \in {"", "mp4", "webm"}, probed \in ProbeAnswers :
          LET path == [dir |-> "", base |-> HashBase(1), ext |-> ext]
              filled == fillProbedMetadata(VideoNew(1, path), probed.metadata)
          IN call' = [op |-> "probeMetadata", ext |-> ext, probed |-> probed,
                      ok |-> probed.ok /\ filled.ok, video |-> filled.video,
                      removed |-> ~(probed.ok /\ filled.ok)]
    /\ UNCHANGED <<fs, videos, up, probes, disk_full>>

\* The Video that Video::fromFile of video.rs builds before the probe fills
\* it, original_filename apart.
fromFileVideo(id, path) ==
    [id |-> id, path |-> path, title |-> "", desc |-> "", artist |-> "",
     views |-> 0, container_type |-> "Mp4", original_filename |-> EmptyName,
     duration |-> 0, thumbnail_path |-> <<>>]

\* The body of the loop of fillProbedMetadata of video.rs for one FORMAT
\* section: format_name, then one chain of if / else if over TAG:title,
\* TAG:comment, TAG:artist and duration.
videoFillFromFormat(video, md) ==
    IF "format_name" \notin DOMAIN md THEN [ok |-> FALSE, video |-> video]
    ELSE IF fromFormatName(md["format_name"]) = None
    THEN [ok |-> FALSE, video |-> video]
    ELSE LET v == [video EXCEPT
                      !.container_type = fromFormatName(md["format_name"])]
         IN IF "TAG:title" \in DOMAIN md
            THEN [ok |-> TRUE, video |-> [v EXCEPT !.title = md["TAG:title"]]]
            ELSE IF "TAG:comment" \in DOMAIN md
            THEN [ok |-> TRUE, video |-> [v EXCEPT !.desc = md["TAG:comment"]]]
            ELSE IF "TAG:artist" \in DOMAIN md
            THEN [ok |-> TRUE, video |-> [v EXCEPT !.artist = md["TAG:artist"]]]
            ELSE IF "duration" \in DOMAIN md
            THEN IF parseSeconds(md["duration"]).ok
                 THEN [ok |-> TRUE,
                       video |-> [v EXCEPT
                                     !.duration = parseSeconds(md["duration"]).ms]]
                 ELSE [ok |-> FALSE, video |-> video]
            ELSE [ok |-> TRUE, video |-> v]

RECURSIVE videoFillProbedMetadata(_, _)
\* fillProbedMetadata of video.rs
videoFillProbedMetadata(video, metadata) ==
    IF metadata = <<>> THEN [ok |-> TRUE, video |-> video]
    ELSE IF Head(metadata).name = "FORMAT"
    THEN LET r == videoFillFromFormat(video, Head(metadata).metadata)
         IN IF r.ok THEN videoFillProbedMetadata(r.video, Tail(metadata)) ELSE r
    ELSE videoFillProbedMetadata(video, Tail(metadata))

\* Video::fromFile on the file moved into the library, as videoFromPart of
\* app.rs calls it, which removes the file when fromFile fails.
fromFileCall ==
    /\ call = NoCall
    /\ \E ext \in {"", "mp4", "webm"}, probed \in ProbeAnswers :
          LET path == [dir |-> "", base |-> HashBase(1), ext |-> ext]
              filled == videoFillProbedMetadata(fromFileVideo(1, path),
                                                probed.metadata)
          IN call' = [op |-> "fromFile", ext |-> ext, probed |-> probed,
                      ok |-> probed.ok /\ filled.ok, video |-> filled.video,
                      removed |-> ~(probed.ok /\ filled.ok)]
    /\ UNCHANGED <<fs, videos, up, probes, disk_full>>

FillNext == probeMetadataCall \/ fromFileCall

FillSpec == Init /\ [][FillNext]_vars

\* ------------------------------------------------ DigestAuthentication
\* A String is the sequence of its UTF-8 bytes: "123" is <<49, 50, 51>>,
\* ' ' is 32, ':' is 58, '0'..'9' are 48..57 and 'a'..'f' are 97..102.
Space == 32
Colon == 58

\* format!("{:x}", d) of one hex digit.
HexDigit(d) == IF d < 10 THEN 48 + d ELSE 87 + d

RECURSIVE LowerHex(_)
\* format!("{:x}", n), n not negative.
LowerHex(n) ==
    IF n < 16 THEN <<HexDigit(n)>>
    ELSE Append(LowerHex(n \div 16), HexDigit(n % 16))

RECURSIVE ZeroPad(_, _)
\* The 0 flag of a format: zeros in front up to the minimum width.
ZeroPad(str, width) ==
    IF Len(str) >= width THEN str ELSE ZeroPad(<<48>> \o str, width)

RECURSIVE HexOfBytes(_)
\* format!("{:02x}", b) of each byte, joined.
HexOfBytes(bytes) ==
    IF bytes = <<>> THEN <<>>
    ELSE <<HexDigit(Head(bytes) \div 16), HexDigit(Head(bytes) % 16)>>
            \o HexOfBytes(Tail(bytes))

RECURSIVE PadRight(_, _)
PadRight(str, width) ==
    IF Len(str) >= width THEN str ELSE PadRight(Append(str, 48), width)

\* The 64 hex characters of the SHA-256 digest of a text.  The digest is
\* stood for by the hex of the text itself filled up to 64 characters:
\* texts of up to 32 bytes get distinct digests, as SHA-256 gives them.
Sha256Hex(text) == PadRight(HexOfBytes(text), 64)

\* DigestAuthentication::hashTimestamp
hashTimestamp(secret, ts_str) == Sha256Hex(ts_str \o <<Colon>> \o secret)

\* The character of the standard base64 alphabet for six bits.
Symbol(n) ==
    IF n < 26 THEN 65 + n
    ELSE IF n < 52 THEN 71 + n
    ELSE IF n < 62 THEN n - 4
    ELSE IF n = 62 THEN 43 ELSE 47

\* The six bits of a character of the alphabet, -1 for any other byte.
Sextet(b) ==
    IF b >= 65 /\ b <= 90 THEN b - 65
    ELSE IF b >= 97 /\ b <= 122 THEN b - 71
    ELSE IF b >= 48 /\ b <= 57 THEN b + 4
    ELSE IF b = 43 THEN 62
    ELSE IF b = 47 THEN 63
    ELSE -1

RECURSIVE Base64Encode(_)
\* BASE64.encode of STANDARD_NO_PAD: four characters for three bytes, two
\* or three characters for the one or two bytes left, and no '='.
Base64Encode(bytes) ==
    IF bytes = <<>> THEN <<>>
    ELSE IF Len(bytes) = 1
    THEN <<Symbol(bytes[1] \div 4), Symbol((bytes[1] % 4) * 16)>>
    ELSE IF Len(bytes) = 2
    THEN LET n == bytes[1] * 256 + bytes[2]
         IN <<Symbol(n \div 1024), Symbol((n \div 16) % 64),
              Symbol((n % 16) * 4)>>
    ELSE LET n == bytes[1] * 65536 + bytes[2] * 256 + bytes[3]
         IN <<Symbol(n \div 262144), Symbol((n \div 4096) % 64),
              Symbol((n \div 64) % 64), Symbol(n % 64)>>
               \o Base64Encode(SubSeq(bytes, 4, Len(bytes)))

RECURSIVE DecodeSextets(_)
DecodeSextets(x) ==
    IF Len(x) < 2 THEN <<>>
    ELSE IF Len(x) = 2 THEN <<(x[1] * 64 + x[2]) \div 16>>
    ELSE IF Len(x) = 3
    THEN LET n == x[1] * 4096 + x[2] * 64 + x[3]
         IN <<n \div 1024, (n \div 4) % 256>>
    ELSE LET n == x[1] * 262144 + x[2] * 4096 + x[3] * 64 + x[4]
         IN <<n \div 65536, (n \div 256) % 256, n % 256>>
               \o DecodeSextets(SubSeq(x, 5, Len(x)))

\* The bits of the last character that belong to no byte.
TrailingBits(x) ==
    IF Len(x) % 4 = 2 THEN x[Len(x)] % 16
    ELSE IF Len(x) % 4 = 3 THEN x[Len(x)] % 4
    ELSE 0

\* BASE64.decode of STANDARD_NO_PAD: an error for a byte outside the
\* alphabet ('=' included), for a length of 1 modulo 4 and for trailing
\* bits that are not zero.
Base64Decode(str) ==
    LET x == [i \in 1..Len(str) |-> Sextet(str[i])] IN
    IF \/ \E i \in 1..Len(str) : x[i] = -1
       \/ Len(str) % 4 = 1
       \/ TrailingBits(x) # 0
    THEN [ok |-> FALSE, bytes |-> <<>>]
    ELSE [ok |-> TRUE, bytes |-> DecodeSextets(x)]

Continuation(b) == b >= 128 /\ b <= 191

RECURSIVE Utf8Valid(_)
\* String::from_utf8: is the byte sequence well-formed UTF-8?
Utf8Valid(b) ==
    IF b = <<>> THEN TRUE
    ELSE IF b[1] < 128 THEN Utf8Valid(Tail(b))
    ELSE IF b[1] >= 194 /\ b[1] <= 223
    THEN Len(b) >= 2 /\ Continuation(b[2]) /\ Utf8Valid(SubSeq(b, 3, Len(b)))
    ELSE IF b[1] >= 224 /\ b[1] <= 239
    THEN /\ Len(b) >= 3
         /\ Continuation(b[2]) /\ Continuation(b[3])
         /\ b[1] = 224 => b[2] >= 160
         /\ b[1] = 237 => b[2] <= 159
         /\ Utf8Valid(SubSeq(b, 4, Len(b)))
    ELSE IF b[1] >= 240 /\ b[1] <= 244
    THEN /\ Len(b) >= 4
         /\ Continuation(b[2]) /\ Continuation(b[3]) /\ Continuation(b[4])
         /\ b[1] = 240 => b[2] >= 144
         /\ b[1] = 244 => b[2] <= 143
         /\ Utf8Valid(SubSeq(b, 5, Len(b)))
    ELSE FALSE

\* DigestAuthentication::calculateNonce
calculateNonce(secret, timestamp_nano) ==
    LET ts_str == ZeroPad(LowerHex(timestamp_nano), 16)
        hash_str == hashTimestamp(secret, ts_str)
    IN Base64Encode(ts_str \o <<Space>> \o hash_str)

\* DigestAuthentication::newNonce, the clock reading now.
newNonce(secret, now) == calculateNonce(secret, now)

\* nonce_decoded.splitn(2, " "): the pieces around the first ' ', the
\* second <<>> for None and <<piece>> for Some(piece).
splitNonce(str) ==
    IF \E i \in 1..Len(str) : str[i] = Space
    THEN LET k == CHOOSE i \in 1..Len(str) :
                     str[i] = Space /\ \A j \in 1..(i - 1) : str[j] # Space
         IN [ts_str |-> SubSeq(str, 1, k - 1),
             hash |-> <<SubSeq(str, k + 1, Len(str))>>]
    ELSE [ts_str |-> str, hash |-> <<>>]

\* char::to_digit(16), -1 for None.
toDigit(b) ==
    IF b >= 48 /\ b <= 57 THEN b - 48
    ELSE IF b >= 97 /\ b <= 102 THEN b - 87
    ELSE IF b >= 65 /\ b <= 70 THEN b - 55
    ELSE -1

RECURSIVE digitsValue(_)
digitsValue(str) ==
    IF str = <<>> THEN 0
    ELSE 16 * digitsValue(SubSeq(str, 1, Len(str) - 1)) + toDigit(str[Len(str)])

\* i128::from_str_radix(str, 16): an optional '+' or '-', then one digit or
\* more.  Sixteen bytes never overflow an i128.
from_str_radix(str) ==
    LET signed == str # <<>> /\ str[1] \in {43, 45}
        digits == IF signed THEN Tail(str) ELSE str
    IN IF digits = <<>> \/ \E i \in 1..Len(digits) : toDigit(digits[i]) = -1
       THEN [ok |-> FALSE, value |-> 0]
       ELSE [ok |-> TRUE,
             value |-> IF signed /\ str[1] = 45 THEN 0 - digitsValue(digits)
                       ELSE digitsValue(digits)]

\* A comparison that leaves out the timeout itself.
withinTimeoutExclusive(time_delta, auth_timeout) == time_delta < auth_timeout

\* time_delta <= self.auth_timeout
withinTimeout(time_delta, auth_timeout) == time_delta <= auth_timeout

\* self.hashTimestamp(ts_str) == hash
hashMatches(secret, ts_str, hash) == hashTimestamp(secret, ts_str) = hash

\* DigestAuthentication::checkNonce, the clock reading now.  A timestamp
\* of sixteen bytes is always in the range of OffsetDateTime.
checkNonce(self, nonce, now) ==
    LET decoded == Base64Decode(nonce)
        split == splitNonce(decoded.bytes)
        ts == from_str_radix(split.ts_str)
        time_delta == now - ts.value
    IN IF ~decoded.ok THEN "Fail"
       ELSE IF ~Utf8Valid(decoded.bytes) THEN "Fail"
       ELSE IF Len(split.ts_str) # 16 THEN "Fail"
       ELSE IF split.hash = <<>> THEN "Fail"
       ELSE IF ~hashMatches(self.secret, split.ts_str, split.hash[1]) THEN "Fail"
       ELSE IF ~ts.ok THEN "Fail"
       ELSE IF time_delta < 0 THEN "Fail"
       ELSE IF withinTimeout(time_delta, self.auth_timeout) THEN "Pass"
       ELSE "Stale"

\* The nonces on their own.  Instances of two secrets and of every timeout
\* up to MaxTimeout issue nonces and check them, while the wall clock that
\* OffsetDateTime::now_utc reads advances or is set back.  The clock
\* counts nanoseconds from 0 up to MaxTime.
Secrets == {<<49, 50, 51>>, <<49, 50, 52>>}

Auths == [secret : Secrets, auth_timeout : 0..MaxTimeout]

\* The clock, the nonce last issued (<<>> for none yet) and the check made
\* (<<>> for none yet).
AuthState ==
    IF call.op = "auth" THEN call
    ELSE [op |-> "auth", now |-> 0, held |-> <<>>, check |-> <<>>]

\* A sign and fifteen hex digits in the place of the timestamp.
SignedTimestamp(sign, t) == <<sign>> \o ZeroPad(LowerHex(t), 15)

\* A text made with a secret in the way calculateNonce makes one.
Forged(secret, ts_str) ==
    Base64Encode(ts_str \o <<Space>> \o hashTimestamp(secret, ts_str))

\* The strings handed to checkNonce of instance self: the nonce last
\* issued; that nonce with '=' appended, with its timestamp moved one
\* nanosecond on, without its first character and without its hash; ""
\* and "abc"; and texts made with self's secret whose first sixteen bytes
\* are no sixteen hex digits.
NoncesToCheck(self, st) ==
    {<<>>, <<97, 98, 99>>,
     Forged(self.secret, SignedTimestamp(43, st.now)),
     Forged(self.secret, SignedTimestamp(45, 1)),
     Forged(self.secret, <<103>> \o ZeroPad(LowerHex(st.now), 15))}
    \cup
    (IF st.held = <<>> THEN {}
     ELSE LET h == st.held[1]
              ts_str == ZeroPad(LowerHex(h.at), 16)
              hash == hashTimestamp(h.by.secret, ts_str)
          IN {h.nonce,
              Append(h.nonce, 61),
              Base64Encode(ZeroPad(LowerHex(h.at + 1), 16) \o <<Space>> \o hash),
              Base64Encode(Tail(ts_str) \o <<Space>> \o hash),
              Base64Encode(ts_str)})

newNonceCall ==
    /\ AuthState.check = <<>>
    /\ \E self \in Auths :
          call' = [AuthState EXCEPT
                      !.held = <<[by |-> self, at |-> AuthState.now,
                                  nonce |-> newNonce(self.secret, AuthState.now)]>>]
    /\ UNCHANGED <<fs, videos, up, probes, disk_full>>

checkNonceCall ==
    /\ AuthState.check = <<>>
    /\ \E self \in Auths :
          \E nonce \in NoncesToCheck(self, AuthState) :
             call' = [AuthState EXCEPT
                         !.check = <<[by |-> self, nonce |-> nonce,
                                      result |-> checkNonce(self, nonce,
                                                            AuthState.now)]>>]
    /\ UNCHANGED <<fs, videos, up, probes, disk_full>>

\* Time passes.
ClockAdvances ==
    /\ AuthState.check = <<>>
    /\ AuthState.now < MaxTime
    /\ call' = [AuthState EXCEPT !.now = @ + 1]
    /\ UNCHANGED <<fs, videos, up, probes, disk_full>>

\* The wall clock is set back.
ClockSetBack ==
    /\ AuthState.check = <<>>
    /\ \E t \in 0..(AuthState.now - 1) : call' = [AuthState EXCEPT !.now = t]
    /\ UNCHANGED <<fs, videos, up, probes, disk_full>>

AuthNext == newNonceCall \/ checkNonceCall \/ ClockAdvances \/ ClockSetBack

AuthSpec == Init /\ [][AuthNext]_vars

\* --------------------------------------- makeRelativePath on its own
\* A directory that is not the library directory.
OtherDir == "other_dir"

\* Canonical paths of media files, under the library directory and not.
RawPaths ==
    {[dir |-> d, base |-> HashBase(h), ext |-> e] :
        d \in {VideoDir, OtherDir}, h \in Ids, e \in {"webm", "webp"}}

\* The files around the call: at most two of the paths hold a file.
RawFiles ==
    {[p \in S |-> [data |-> <<"a">>, h |-> {}]] :
        S \in {T \in SUBSET RawPaths : Cardinality(T) <= 2}}

\* makeRelativePath of a RawVideo at any of the paths, with any of the
\* files present.
makeRelativePathCall ==
    /\ call = NoCall
    /\ \E path \in RawPaths, f \in RawFiles :
          call' = [op |-> "makeRelativePath", path |-> path, fs |-> f,
                   result |-> makeRelativePathResult(f, path)]
    /\ UNCHANGED <<fs, videos, up, probes, disk_full>>

RelNext == makeRelativePathCall

RelSpec == Init /\ [][RelNext]_vars

\* ------------------------------------------- the handlers of app.rs
\* The server of app.rs.  call holds what the handlers share beside the
\* library directory (fs) and the videos table (videos): the
\* configuration, the wall clock, the sessions table and the upload request
\* being handled.  A token is <<>> for None and <<t>> for Some(t).
MaxParts == 2

\* The token of the one login, and a token no login has issued.
IssuedToken == 1
UnknownToken == 2
\* The token cookies a request can carry: none, a token no login issued,
\* and the tokens the logins so far have issued.
RequestTokens(issued) == {<<>>, <<UnknownToken>>} \cup {<<t>> : t \in issued}

\* The wall clock starts late enough for `now as u64 - life_time_sec` not
\* to wrap: a unix time is larger than any session life time.
ClockStart == MaxTimeout

\* The parts of a form: with or without a file name, with a chunk or none.
Parts ==
    {[filename |-> n, data |-> d] :
        n \in {NoFilename, <<"clip", "webm">>}, d \in {<<>>, <<"a">>}}

NoRequest ==
    [pc |-> "idle", token |-> <<>>, results |-> <<>>, placed |-> {},
     response |-> ""]

NoValidation == [token |-> <<>>, result |-> "none", age |-> <<>>, now |-> 0]

\* Configuration::fromFile and the start of the server: the configured
\* session life time, and the working directory of the process.
Configure ==
    /\ call = NoCall
    /\ \E life \in 0..MaxTimeout, cwd \in {VideoDir, OtherDir} :
          call' = [op |-> "app", session_life_time_sec |-> life, cwd |-> cwd,
                   now |-> ClockStart, sessions |-> {}, issued |-> {},
                   last |-> NoValidation, req |-> NoRequest]
    /\ UNCHANGED <<fs, videos, up, probes, disk_full>>

\* The server runs and the upload request has not arrived yet.
Quiet == call.op = "app" /\ call.req.pc = "idle"

\* A second passes.
Tick ==
    /\ Quiet
    /\ call.now < ClockStart + MaxTime
    /\ call' = [call EXCEPT !.now = @ + 1]
    /\ UNCHANGED <<fs, videos, up, probes, disk_full>>

\* Manager::createSession(token): a row with the time of now.
createSession(sessions, token, now) ==
    sessions \cup {[token |-> token, auth_time |-> now]}

\* handleLogin with the right password: createToken draws a token that was
\* never issued, and the session is created.
handleLogin ==
    /\ Quiet
    /\ IssuedToken \notin call.issued
    /\ call' = [call EXCEPT
                   !.sessions = createSession(@, IssuedToken, call.now),
                   !.issued = @ \cup {IssuedToken}]
    /\ UNCHANGED <<fs, videos, up, probes, disk_full>>

\* An expiry that deletes the session whose age is the life time too.
expireSessionsInclusive(sessions, now, life_time_sec) ==
    {s \in sessions : ~(s.auth_time <= now - life_time_sec)}

\* Manager::expireSessions: DELETE FROM sessions WHERE auth_time < now - life.
expireSessions(sessions, now, life_time_sec) ==
    {s \in sessions : ~(s.auth_time < now - life_time_sec)}

\* Manager::hasSession: Ok(auth_time) for a row of the token, else
\* Err("Session not found").
hasSession(sessions, token) ==
    IF \E s \in sessions : s.token = token
    THEN [ok |-> TRUE,
          auth_time |-> (CHOOSE s \in sessions : s.token = token).auth_time]
    ELSE [ok |-> FALSE, auth_time |-> 0]

\* validateSession(token): "true" for Ok(true), "false" for Ok(false) and
\* "error" for Err, with the sessions table it leaves.
validateSession(token, sessions, now, life_time_sec) ==
    IF token # <<>>
    THEN LET kept == expireSessions(sessions, now, life_time_sec) IN
         [result |-> IF hasSession(kept, token[1]).ok THEN "true" ELSE "error",
          sessions |-> kept]
    ELSE [result |-> "false", sessions |-> sessions]

\* What is noted of a call of validateSession: the token, the result, the
\* time, and the age of the token's session at the call, <<>> when it had
\* none.
Validation(token, result) ==
    [token |-> token, result |-> result, now |-> call.now,
     age |-> IF token # <<>> /\ hasSession(call.sessions, token[1]).ok
             THEN <<call.now - hasSession(call.sessions, token[1]).auth_time>>
             ELSE <<>>]

\* handleUploadPage: the page for a valid session, else 401 or the error.
handleUploadPage ==
    /\ Quiet
    /\ \E token \in RequestTokens(call.issued) :
          LET v == validateSession(token, call.sessions, call.now,
                                   call.session_life_time_sec)
          IN call' = [call EXCEPT !.sessions = v.sessions,
                                  !.last = Validation(token, v.result)]
    /\ UNCHANGED <<fs, videos, up, probes, disk_full>>

\* A handler that lets a request without a token pass.
uploadAllowedUnlessError(v) == v.result # "error"

\* handleUpload 267-271: the request goes on for Ok(true) only.
uploadAllowed(v) == v.result = "true"

\* handleUpload up to the first part: the session is validated, and the
\* request rejected unless it is valid.
handleUploadBegin ==
    /\ Quiet
    /\ \E token \in RequestTokens(call.issued) :
          LET v == validateSession(token, call.sessions, call.now,
                                   call.session_life_time_sec)
          IN call' = [call EXCEPT
                 !.sessions = v.sessions,
                 !.last = Validation(token, v.result),
                 !.req = IF uploadAllowed(v)
                         THEN [NoRequest EXCEPT !.pc = "collecting",
                                                !.token = token]
                         ELSE [NoRequest EXCEPT !.pc = "done",
                                                !.token = token,
                                                !.response = "reject"]]
    /\ UNCHANGED <<fs, videos, up, probes, disk_full>>

\* Video::fromFile(file name, video_dir) for the file moved to video_file:
\* the bare file name is canonicalized against the working directory, and
\* then probed and filled; original_filename is set by the caller.
appFromFile(f, seen, cwd, video_file, orig_name) ==
    IF cwd # VideoDir
    THEN {[ok |-> FALSE, video |-> NoVideo, probes |-> seen]}
    ELSE {LET filled == videoFillProbedMetadata(
                           fromFileVideo(video_file.base[2],
                                         StripPrefix(video_file, VideoDir).path),
                           p.metadata)
          IN [ok |-> p.ok /\ filled.ok,
              video |-> [filled.video EXCEPT !.original_filename = orig_name],
              probes |-> Remember(seen, f, video_file, p)] :
          p \in probeVideo(f, video_file, seen)}

\* generateThumbnail of app.rs and what videoFromPart does with its answer:
\* on an error the expected thumbnail path is removed, else the record
\* gets its thumbnail path.
appThumbnail(f, video) ==
    {IF o.status = "success"
     THEN [fs |-> o.fs,
           video |-> [video EXCEPT
                         !.thumbnail_path = <<WithExtension(video.path, "webp")>>]]
     ELSE [fs |-> RemoveFile(o.fs, expectedThumbnailPath(video)), video |-> video] :
     o \in ffmpegOutcomes(f, videoPath(video), expectedThumbnailPath(video))}

\* The temp file when the stream has ended and the writer is dropped: it
\* holds the chunks, or not those the writer still kept when the flush of
\* the drop fails, whose error is ignored.
appWritten(f, temp, data) ==
    {WriteFile(f, temp, data), WriteFile(f, temp, <<>>)}

\* The value videoFromPart returns, or how it ends otherwise.
PartResult(kind, err, video, f, seen, placed) ==
    [kind |-> kind, err |-> err, video |-> video, fs |-> f, probes |-> seen,
     placed |-> placed]

\* videoFromPart from line 231 on, the file moved to video_file: kind is
\* "ok" for Ok(Ok(video)) and "panic" for the unwrap of an Err at line 243,
\* which follows the removal of the file.
appProbeAndThumbnail(f, seen, cwd, video_file, orig_name) ==
    UNION {
       IF ~v.ok
       THEN {PartResult("panic", "Probe", NoVideo, RemoveFile(f, video_file),
                        v.probes, {video_file})}
       ELSE {PartResult("ok", "", t.video, t.fs, v.probes, {video_file}) :
             t \in appThumbnail(f, v.video)} :
       v \in appFromFile(f, seen, cwd, video_file, orig_name)}

\* videoFromPart from the rename of line 225 on.
appMoveToLibrary(f, seen, cwd, temp, video_file, orig_name) ==
    UNION {
       IF ~r.ok
       THEN {PartResult("err", "Rename", NoVideo,
                        renameErrorCleanup(r.fs, temp, video_file), seen, {})}
       ELSE appProbeAndThumbnail(r.fs, seen, cwd, video_file, orig_name) :
       r \in renameResult(f, temp, video_file)}

\* videoFromPart(part): every way it can run on the files f.  kind is
\* "err" for Ok(Err(e)) and "warp_error" for Err(e); the temp file of an
\* error is removed before the return.
videoFromPart(f, seen, cwd, part) ==
    IF part.filename = NoFilename
    THEN {PartResult("err", "NoFilename", NoVideo, f, seen, {})}
    ELSE LET id == Digest(part.data)
             video_file == WithExtension(JoinDir(VideoDir, HashBase(id)),
                                         ExtOrEmpty(part.filename))
             temps == {JoinDir(VideoDir, TempBase(n)) : n \in randomTempFilename(f)}
         IN {PartResult("err", "OpenTemp", NoVideo, f, seen, {}),
             PartResult("warp_error", "ReadStream", NoVideo, f, seen, {}),
             PartResult("err", "WriteTemp", NoVideo, f, seen, {})}
            \cup UNION {
               UNION {appMoveToLibrary(written, seen, cwd, temp, video_file,
                                       part.filename) :
                      written \in appWritten(f, temp, part.data)} :
               temp \in temps}

\* The next part of the form is handled, or reading the form fails.
videoFromPartStep ==
    /\ call.op = "app" /\ call.req.pc = "collecting"
    /\ Len(call.req.results) < MaxParts
    /\ \E part \in Parts :
       \E o \in videoFromPart(fs, probes, call.cwd, part) :
          /\ fs' = o.fs
          /\ probes' = o.probes
          /\ call' = [call EXCEPT !.req =
                CASE o.kind = "warp_error" ->
                        [@ EXCEPT !.pc = "done", !.response = "reject",
                                  !.placed = @ \cup o.placed]
                  [] o.kind = "panic" ->
                        [@ EXCEPT !.pc = "done", !.response = "panic",
                                  !.placed = @ \cup o.placed]
                  [] OTHER ->
                        [@ EXCEPT !.results =
                                     Append(@, [ok |-> o.kind = "ok",
                                                video |-> o.video]),
                                  !.placed = @ \cup o.placed]]
    /\ UNCHANGED <<videos, up, disk_full>>

\* The loop of handleUpload over the collected parts: the first part is
\* dealt with and the loop broken.
handleUploadLoop(f, rows, parts) ==
    IF parts = <<>> THEN [response |-> "OK", fs |-> f, rows |-> rows]
    ELSE IF ~Head(parts).ok THEN [response |-> "reject", fs |-> f, rows |-> rows]
    ELSE LET v == Head(parts).video
             r == addVideo(rows, v)
         IN IF r.ok THEN [response |-> "OK", fs |-> f, rows |-> r.rows]
            ELSE [response |-> "reject", fs |-> RemoveFile(f, Join(VideoDir, v.path)),
                  rows |-> rows]

\* The form ends: try_collect returns the parts and the loop runs.
handleUploadEnd ==
    /\ call.op = "app" /\ call.req.pc = "collecting"
    /\ LET r == handleUploadLoop(fs, videos, call.req.results) IN
       /\ fs' = r.fs
       /\ videos' = r.rows
       /\ call' = [call EXCEPT !.req.pc = "done", !.req.response = r.response]
    /\ UNCHANGED <<up, probes, disk_full>>

\* Logins and requests of the upload page as time passes.
SessionNext ==
    \/ Configure
    \/ Tick
    \/ handleLogin
    \/ handleUploadPage

SessionSpec == Init /\ [][SessionNext]_vars

\* Logins as time passes, and then one upload request.
AppNext ==
    \/ Configure
    \/ Tick
    \/ handleLogin
    \/ handleUploadBegin
    \/ videoFromPartStep
    \/ handleUploadEnd

AppSpec == Init /\ [][AppNext]_vars

\* ------------------------------------------------------- properties
\* The step of upload u from stage a to stage b.
Moves(u, a, b) == up[u].pc = a /\ up'[u].pc = b

\* <video_dir>/<id>.<ext>, the media file of upload u.
MediaPath(u) == Join(VideoDir, up[u].path)

\* The rows of the index with identifier id.
RowsOf(id) == {r \in videos : r.id = id}

\* C1: when the pipeline of an upload returns success (addToDatabase
\* commits), the file <video_dir>/<record.path> exists and the record's id
\* is the identifier derived from the digest of that file's bytes.
C1_CommittedFileHasDigestId ==
    [][\A u \in Uploads :
          Moves(u, "thumbnailed", "committed") =>
             /\ Exists(fs', videoPath(up[u].video))
             /\ up[u].video.id = Digest(fs'[videoPath(up[u].video)].data)]_vars

\* C2: when makeRelativePath, the probe, fillProbedMetadata or the insert
\* fails, the media file of the upload does not exist as the error is
\* returned, and the upload has inserted no row: the index changes only in
\* the step that commits.
C2_FailedStageLeavesNothing ==
    [][/\ \A u \in Uploads :
             /\ up[u].pc \in {"moved", "relative", "thumbnailed"}
             /\ up'[u].pc = "aborted"
             => ~Exists(fs', MediaPath(u)) /\ videos' = videos
       /\ videos' # videos =>
             \E u \in Uploads : Moves(u, "thumbnailed", "committed")]_vars

\* An upload whose insert failed, one whose probe failed and no media file
\* of either.
C2_Witness ==
    \E u \in Uploads :
       /\ up[u].pc = "aborted"
       /\ up[u].err \in {"Probe", "Fill", "Insert"}
       /\ ~Exists(fs, MediaPath(u))
       /\ \E v \in Uploads \ {u} : up[v].pc = "committed"

\* C3: every row of the index has a path that names an existing file of
\* the library directory.
C3_EveryRecordHasItsFile ==
    \A r \in videos : Exists(fs, Join(VideoDir, r.path))

\* Has upload u ended after saveToTemp gave it its identifier?
Ran(u) ==
    \/ up[u].pc = "committed"
    \/ up[u].pc = "aborted" /\
       up[u].err \in {"Rename", "Canonicalize", "NotInVideoDir", "Probe",
                      "Fill", "Insert"}

\* C4: the index never holds two rows with the same id, and of two
\* pipeline runs on the same bytes, one after the other, of which one
\* commits, the other is rejected with an error and one row has their id.
C4_DuplicateRejected ==
    /\ \A r1, r2 \in videos : r1.id = r2.id => r1 = r2
    /\ \A u, v \in Uploads :
          /\ u # v /\ Ran(u) /\ Ran(v)
          /\ up[u].hash = up[v].hash
          /\ up[u].pc = "committed"
          => /\ up[v].pc = "aborted"
             /\ Cardinality(RowsOf(up[u].hash)) = 1

\* Two runs on the same bytes: the first committed, the second rejected by
\* the insert.
C4_Witness ==
    \E u, v \in Uploads :
       /\ u # v
       /\ up[u].hash = up[v].hash
       /\ up[u].pc = "committed"
       /\ up[v].pc = "aborted" /\ up[v].err = "Insert"

\* C5: of two uploads of the same bytes, whatever the interleaving, when
\* one ends committed and the other with the collision error of the
\* insert, the winner's row and its media file both remain.
C5_WinnerKeepsRecordAndFile ==
    \A u, v \in Uploads :
       /\ u # v
       /\ up[u].hash = up[v].hash
       /\ up[u].pc = "committed"
       /\ up[v].pc = "aborted" /\ up[v].err \in {"Rename", "Insert"}
       => /\ RowsOf(up[u].hash) # {}
          /\ \A r \in RowsOf(up[u].hash) : Exists(fs, Join(VideoDir, r.path))

\* C6: moveToLibrary never overwrites: when a file exists at the
\* destination, it returns an error and that file's content is unchanged.
C6_MoveNeverOverwrites ==
    [][\A u \in Uploads :
          LET dest == libraryPath(up[u].hash, up[u].path) IN
          /\ up[u].pc = "raw" /\ up'[u].pc # "raw"
          /\ Exists(fs, dest)
          => /\ up'[u].pc = "aborted"
             /\ Exists(fs', dest)
             /\ fs'[dest].data = fs[dest].data]_vars

FailedStatus == {"spawn_error", "nonzero", "nonzero_partial"}

\* C7: generateThumbnail never fails, and returns the record unchanged,
\* with no thumbnail path, when ffmpeg cannot be started or exits
\* non-zero; the following addToDatabase, unless the index has a row with
\* the id or the path, commits that record with the thumbnail path absent.
C7_ThumbnailFailureStillCommits ==
    [][\A u \in Uploads :
          /\ up[u].pc = "probed" /\ up'[u].pc # "probed"
             => /\ up'[u].pc = "thumbnailed"
                /\ up'[u].thumb_status \in FailedStatus
                   => /\ up'[u].video = up[u].video
                      /\ up'[u].video.thumbnail_path = <<>>
          /\ up[u].pc = "thumbnailed" /\ up'[u].pc # "thumbnailed"
             /\ up[u].thumb_status \in FailedStatus
             /\ insertAllowed(videos, Row(up[u].video))
             => /\ up'[u].pc = "committed"
                /\ \E r \in videos' \ videos :
                      r.id = up[u].video.id /\ r.thumbnail_path = <<>>]_vars

\* An upload committed without a thumbnail: its row has no thumbnail path
\* and no thumbnail file was written.
C7_Witness ==
    \E u \in Uploads :
       /\ up[u].pc = "committed"
       /\ \E r \in RowsOf(up[u].hash) :
             /\ r.thumbnail_path = <<>>
             /\ ~Exists(fs, WithExtension(Join(VideoDir, r.path), "webp"))

\* The stages of an upload that has created its temp file and not ended.
InFlight == {"receiving", "raw", "moved", "relative", "probed", "thumbnailed"}

\* C11: an upload that has created its temp file eventually ends Committed
\* or Aborted, given that the stream ends and the tools return, and an
\* upload that has ended stays in the state it ended in.
C11_PipelineTerminates ==
    /\ \A u \in Uploads :
          (up[u].pc \in InFlight) ~> (up[u].pc \in {"committed", "aborted"})
    /\ [][\A u \in Uploads :
             up[u].pc \in {"committed", "aborted"} => up'[u].pc = up[u].pc]_vars

\* One upload ended Committed, the other Aborted after its temp file was
\* created.
C11_Witness ==
    \E u, v \in Uploads :
       /\ up[u].pc = "committed"
       /\ up[v].pc = "aborted"
       /\ up[v].err \notin {"NoFilename", "OpenTemp"}

\* C12: a record becomes visible to findVideoByID and getVideos only in the
\* step in which addToDatabase commits, after the relocation, the probe and
\* the thumbnail stage of its upload, and what is visible from then on is
\* the whole record that the thumbnail stage returned.
C12_VisibleOnlyWhenComplete ==
    [][\A v \in getVideos(videos') :
          findVideoByID(videos, v.id).video = <<>> =>
             \E u \in Uploads :
                /\ Moves(u, "thumbnailed", "committed")
                /\ up[u].video.id = v.id
                /\ v = [up[u].video EXCEPT !.views = 0]
                /\ findVideoByID(videos', v.id) = [ok |-> TRUE, video |-> <<v>>]
                /\ getVideos(videos') = getVideos(videos) \cup {v}]_vars

\* A committed upload whose record, with the title and the duration of the
\* probe and with its thumbnail path, is what findVideoByID returns.
C12_Witness ==
    \E u \in Uploads :
       /\ up[u].pc = "committed"
       /\ findVideoByID(videos, up[u].hash).video # <<>>
       /\ LET v == findVideoByID(videos, up[u].hash).video[1]
          IN v.title = "T" /\ v.duration = 45000 /\ v.thumbnail_path # <<>>

C14_PathIsIdAndExtension ==
    \A r \in videos :
       r.path = [dir |-> "", base |-> HashBase(r.id),
                 ext |-> ExtOrEmpty(r.original_filename)]

\* A record of an upload named clip.webm and one of an upload with the
\* empty name.
C14_Witness ==
    \E r1, r2 \in videos :
       /\ r1.original_filename = <<"clip", "webm">> /\ r1.path.ext = "webm"
       /\ r2.original_filename = EmptyName /\ r2.path.ext = ""

\* C15: increaseViewCount(id) adds exactly 1 to the views of the record
\* with that id and changes nothing else; when no record has the id it
\* returns an error and the index is unchanged.
C15_IncreaseViewCount ==
    [][call'.op = "increaseViewCount" =>
          IF \E r \in videos : r.id = call'.id
          THEN /\ call'.ok
               /\ \E r \in videos :
                     /\ r.id = call'.id
                     /\ videos' = (videos \ {r}) \cup
                                   {[r EXCEPT !.views = r.views + 1]}
          ELSE /\ ~call'.ok
               /\ videos' = videos]_vars

\* The views of a record were counted up to 2 while another record stayed
\* at 0.
C15_Witness ==
    /\ call.op = "increaseViewCount" /\ call.ok
    /\ \E r, q \in videos :
          r.id = call.id /\ r.views = 2 /\ q.id # r.id /\ q.views = 0

\* C16: a record has 0 views when it is created, whatever the Video in
\* memory held; its views never decrease; and no operation of the index
\* (the insert of another record, a rejected insert, increaseViewCount)
\* removes a record or changes a field of it other than views.
C16_ViewsOnlyGrow ==
    [][/\ \A q \in videos' :
             (\A r \in videos : r.id # q.id) => q.views = 0
       /\ \A r \in videos :
             \E q \in videos' :
                /\ q = [r EXCEPT !.views = q.views]
                /\ q.views >= r.views
       /\ Cardinality(videos') = Cardinality({q.id : q \in videos'})]_vars

\* A Video that held 7 views in memory was inserted, and a second insert of
\* its id was rejected after its views were counted.
C16_Witness ==
    /\ call.op = "addVideo" /\ ~call.ok
    /\ \E r \in videos : r.id = call.id /\ r.views = 1
    /\ Cardinality(videos) = 2

\* Is the line a KEY=VALUE line: not empty, no marker, with a '='?
IsKeyValue(line) ==
    /\ line # <<>>
    /\ sec_begin_pattern(line) = <<>> /\ sec_end_pattern(line) = <<>>
    /\ HasEquals(line)

RECURSIVE DropsData(_, _)
\* Does the input, read with the section open (<<>> for none, <<name>>),
\* leave a section open at its end, open a section inside an open one, or
\* have a KEY=VALUE line outside any section?
DropsData(lines, open) ==
    IF lines = <<>> THEN open # <<>>
    ELSE LET line == Head(lines) IN
         IF sec_begin_pattern(line) # <<>>
         THEN open # <<>> \/ DropsData(Tail(lines), sec_begin_pattern(line))
         ELSE IF sec_end_pattern(line) # <<>>
         THEN DropsData(Tail(lines),
                        IF open = sec_end_pattern(line) THEN <<>> ELSE open)
         ELSE IF IsKeyValue(line)
         THEN open = <<>> \/ DropsData(Tail(lines), open)
         ELSE DropsData(Tail(lines), open)

\* C17: parseProbeOutput returns an error for input in which a section is
\* opened and not closed before the input ends or before another section is
\* opened, and for input with KEY=VALUE lines outside any section.
C17_MalformedRejected ==
    call.op = "parseProbeOutput" /\ DropsData(call.output, <<>>)
       => ~call.result.ok

RECURSIVE StrayClose(_, _)
\* Does the input, read with the section open, have a closing line [/X]
\* while the open section is not X or no section is open?
StrayClose(lines, open) ==
    IF lines = <<>> THEN FALSE
    ELSE LET line == Head(lines) IN
         IF sec_begin_pattern(line) # <<>>
         THEN StrayClose(Tail(lines), sec_begin_pattern(line))
         ELSE IF sec_end_pattern(line) # <<>>
         THEN open # sec_end_pattern(line) \/ StrayClose(Tail(lines), <<>>)
         ELSE StrayClose(Tail(lines), open)

\* C18: parseProbeOutput returns an error whenever a closing line [/X] is
\* met while the open section's name is not X, or while no section is open.
C18_MismatchedCloseRejected ==
    call.op = "parseProbeOutput" /\ StrayClose(call.output, <<>>)
       => ~call.result.ok

\* Is the line not empty, no marker and without a '='?
NoEqualsLine(line) ==
    /\ line # <<>>
    /\ sec_begin_pattern(line) = <<>> /\ sec_end_pattern(line) = <<>>
    /\ ~HasEquals(line)

\* C19: parseProbeOutput returns an error for input with a non-empty line
\* that is neither a begin marker nor an end marker and has no '='.
C19_LineWithoutEqualsRejected ==
    call.op = "parseProbeOutput"
    /\ (\E i \in 1..Len(call.output) : NoEqualsLine(call.output[i]))
       => ~call.result.ok

\* A line without '=' after lines that parse was rejected.
C19_Witness ==
    /\ call.op = "parseProbeOutput"
    /\ Len(call.output) >= 3
    /\ NoEqualsLine(call.output[Len(call.output)])
    /\ parseProbeOutput(SubSeq(call.output, 1, Len(call.output) - 1)).ok
    /\ ~call.result.ok

\* The FORMAT sections of parsed probe output.
FormatSections(metadata) ==
    {i \in 1..Len(metadata) : metadata[i].name = "FORMAT"}

\* C20: when a FORMAT section of the probe output has no format_name, or a
\* format_name that is neither "mov,mp4,m4a,3gp,3g2,mj2" nor
\* "matroska,webm", probeMetadata returns an error; the container kind of
\* a record it returns is Mp4 for the first name and WebM for the second,
\* whatever the extension of the file.
C20_ContainerFromFormatName ==
    call.op = "probeMetadata" /\ call.probed.ok =>
       \A i \in FormatSections(call.probed.metadata) :
          LET md == call.probed.metadata[i].metadata IN
          /\ "format_name" \notin DOMAIN md => ~call.ok
          /\ "format_name" \in DOMAIN md =>
                /\ md["format_name"] \notin
                      {"mov,mp4,m4a,3gp,3g2,mj2", "matroska,webm"} => ~call.ok
                /\ call.ok /\ md["format_name"] = "mov,mp4,m4a,3gp,3g2,mj2"
                      => call.video.container_type = "Mp4"
                /\ call.ok /\ md["format_name"] = "matroska,webm"
                      => call.video.container_type = "WebM"

\* A record of kind WebM was returned for a file with the extension mp4.
C20_Witness ==
    /\ call.op = "probeMetadata" /\ call.ok
    /\ call.ext = "mp4"
    /\ call.video.container_type = "WebM"
    /\ Len(call.probed.metadata) = 2

\* C21: when a FORMAT section of the probe output has no duration key, or
\* a duration that does not parse as a number, probeMetadata returns an
\* error: it returns no record, with a defaulted duration or any other.
C21_DurationMandatory ==
    call.op = "probeMetadata" /\ call.probed.ok =>
       \A i \in FormatSections(call.probed.metadata) :
          LET md == call.probed.metadata[i].metadata IN
          /\ "duration" \notin DOMAIN md => ~call.ok /\ call.removed
          /\ "duration" \in DOMAIN md /\ md["duration"] = "x"
                => ~call.ok /\ call.removed

\* The probe named a supported container and a duration that is no
\* number, and probeMetadata returned an error.
C21_Witness ==
    /\ call.op = "probeMetadata" /\ call.probed.ok /\ ~call.ok
    /\ \E i \in FormatSections(call.probed.metadata) :
          LET md == call.probed.metadata[i].metadata IN
          /\ "format_name" \in DOMAIN md
          /\ fromFormatName(md["format_name"]) # None
          /\ "duration" \in DOMAIN md /\ md["duration"] = "x"

\* The nonce last issued is being checked by the instance that issued it.
OwnCheck ==
    /\ call.op = "auth" /\ call.check # <<>> /\ call.held # <<>>
    /\ call.check[1].by = call.held[1].by
    /\ call.check[1].nonce = call.held[1].nonce

OwnNonces(self) == {calculateNonce(self.secret, t) : t \in 0..(MaxTime + 1)}

\* C23: checkNonce returns Fail, never Pass or Stale, for every nonce that
\* was not produced with the checking instance's own secret: a nonce of an
\* instance with another secret, the empty string, and any string that
\* does not decode to "<16 hex chars> <hash>" with hash = hashTimestamp of
\* those characters.
C23_ForeignNonceFails ==
    /\ call.op = "auth" /\ call.check # <<>>
    /\ call.check[1].nonce \notin OwnNonces(call.check[1].by)
    => call.check[1].result = "Fail"

\* C24: when the rename in moveToLibrary fails, moveToLibrary returns an
\* error, and as it returns neither the temp file nor a file at the
\* destination path exists.
C24_FailedRenameLeavesNothing ==
    [][\A u \in Uploads :
          Moves(u, "raw", "aborted") =>
             /\ up'[u].err = "Rename"
             /\ ~Exists(fs', up[u].path)
             /\ ~Exists(fs', libraryPath(up[u].hash, up[u].path))]_vars

\* The rename of the only upload so far failed: its temp file was there,
\* and is gone.
C24_Witness ==
    \E u \in Uploads :
       /\ up[u].pc = "aborted" /\ up[u].err = "Rename"
       /\ \A v \in Uploads \ {u} : up[v].pc = "none"
       /\ ~Exists(fs, up[u].path)

\* C25: when the probe exits successfully and its parsed output has no
\* section named FORMAT (empty output, say), probeMetadata returns an error
\* and deletes the media file; it returns no record with the constructor's
\* container kind and a zero duration.
C25_FormatSectionMandatory ==
    /\ call.op = "probeMetadata" /\ call.probed.ok
    /\ FormatSections(call.probed.metadata) = {}
    => ~call.ok /\ call.removed

\* C26: the title, comment and artist or author tags are recognised under
\* every casing of the key: a record returned for a FORMAT section with
\* TAG:title, TAG:TITLE or TAG:Title has the tag's value as its title, and
\* so for the comment and for the artist or author.
C26_TagsInAnyCasing ==
    call.op = "probeMetadata" /\ call.ok =>
       \A i \in FormatSections(call.probed.metadata) :
          LET md == call.probed.metadata[i].metadata IN
          /\ \A k \in TitleKeys \cap DOMAIN md : call.video.title = md[k]
          /\ \A k \in CommentKeys \cap DOMAIN md : call.video.desc = md[k]
          /\ \A k \in ArtistKeys \cap DOMAIN md : call.video.artist = md[k]

\* C27: title, description, artist and duration are each filled from their
\* own key whatever other keys are present, by probeMetadata and by
\* Video::fromFile of the upload handler of app.rs: a FORMAT section with
\* format_name, duration, TAG:title, TAG:comment and TAG:artist gives a
\* record with all four set.
C27_FieldsFilledIndependently ==
    call.op \in {"probeMetadata", "fromFile"} /\ call.ok =>
       \A i \in FormatSections(call.probed.metadata) :
          LET md == call.probed.metadata[i].metadata IN
          /\ "TAG:title" \in DOMAIN md => call.video.title = md["TAG:title"]
          /\ "TAG:comment" \in DOMAIN md => call.video.desc = md["TAG:comment"]
          /\ "TAG:artist" \in DOMAIN md => call.video.artist = md["TAG:artist"]
          /\ "duration" \in DOMAIN md =>
                call.video.duration = parseSeconds(md["duration"]).ms

RECURSIVE WellFormed(_, _)
\* Is the input, read with the section open (<<>> for none, <<name>>), a
\* sequence of sections, each opened by [NAME] and closed by the matching
\* [/NAME], with KEY=VALUE lines inside sections only, and empty lines
\* anywhere?
WellFormed(lines, open) ==
    IF lines = <<>> THEN open = <<>>
    ELSE LET line == Head(lines) IN
         IF line = <<>> THEN WellFormed(Tail(lines), open)
         ELSE IF sec_begin_pattern(line) # <<>>
         THEN open = <<>> /\ WellFormed(Tail(lines), sec_begin_pattern(line))
         ELSE IF sec_end_pattern(line) # <<>>
         THEN open = sec_end_pattern(line) /\ WellFormed(Tail(lines), <<>>)
         ELSE IsKeyValue(line) /\ open # <<>> /\ WellFormed(Tail(lines), open)

\* The lines that close a section, and the n-th of them.
EndLines(output) ==
    {j \in 1..Len(output) : sec_end_pattern(output[j]) # <<>>}

NthEnd(output, n) ==
    CHOOSE j \in EndLines(output) :
       Cardinality({e \in EndLines(output) : e <= j}) = n

\* The line that opens the section closed at line j.
BeginOf(output, j) ==
    CHOOSE i \in 1..(j - 1) :
       /\ sec_begin_pattern(output[i]) # <<>>
       /\ \A k \in (i + 1)..(j - 1) : sec_begin_pattern(output[k]) = <<>>

\* The text before and the text after the first '=' of a line.
KeyOf(line) == SubSeq(line, 1, FirstEquals(line) - 1)
ValueOf(line) == SubSeq(line, FirstEquals(line) + 1, Len(line))

\* The mapping of the section closed at line j: each key of its lines with
\* the value of the last line that has the key.
MappingOf(output, j) ==
    LET inside == {k \in (BeginOf(output, j) + 1)..(j - 1) : IsKeyValue(output[k])}
    IN [key \in {KeyOf(output[k]) : k \in inside} |->
          ValueOf(output[CHOOSE k \in inside :
                            /\ KeyOf(output[k]) = key
                            /\ \A l \in inside : KeyOf(output[l]) = key => l <= k])]

\* C28: for well-formed probe output parseProbeOutput succeeds and returns
\* one section for each section of the input, in the order of the input,
\* with the section's name and a mapping in which each key has the text
\* after the first '=' of its last line; empty lines change nothing.
C28_WellFormedParsed ==
    call.op = "parseProbeOutput" /\ WellFormed(call.output, <<>>) =>
       /\ call.result.ok
       /\ Len(call.result.sections) = Cardinality(EndLines(call.output))
       /\ \A n \in 1..Len(call.result.sections) :
             LET j == NthEnd(call.output, n) IN
             /\ <<call.result.sections[n].name>> = sec_end_pattern(call.output[j])
             /\ call.result.sections[n].metadata = MappingOf(call.output, j)

\* A section whose key occurs twice, the second time with a '=' in its
\* value, was parsed.
C28_Witness ==
    /\ call.op = "parseProbeOutput" /\ WellFormed(call.output, <<>>)
    /\ Len(call.output) = 4
    /\ IsKeyValue(call.output[2]) /\ IsKeyValue(call.output[3])
    /\ KeyOf(call.output[2]) = KeyOf(call.output[3])
    /\ HasEquals(ValueOf(call.output[3]))
    /\ call.result.ok /\ Len(call.result.sections) = 1

\* C29: when ffmpeg cannot be run or exits non-zero, generateThumbnail
\* returns the record unchanged and no file exists at the expected
\* thumbnail path <video_dir>/<id>.webp afterwards: output the tool left
\* there is deleted before generateThumbnail returns.
C29_FailedThumbnailLeavesNoFile ==
    [][\A u \in Uploads :
          Moves(u, "probed", "thumbnailed") /\ up'[u].thumb_status # "success"
          => /\ up'[u].video = up[u].video
             /\ ~Exists(fs', expectedThumbnailPath(up[u].video))]_vars

\* C30: when the insert into the index fails after a thumbnail was
\* generated, the upload leaves nothing behind: as addToDatabase returns
\* the error, neither the media file nor the thumbnail file
\* <video_dir>/<id>.webp exists.
C30_FailedInsertLeavesNothing ==
    [][\A u \in Uploads :
          Moves(u, "thumbnailed", "aborted") /\ up[u].video.thumbnail_path # <<>>
          => /\ ~Exists(fs', videoPath(up[u].video))
             /\ ~Exists(fs', expectedThumbnailPath(up[u].video))]_vars

\* Is the path relative to the library root?
IsRelative(p) == p.dir = ""

IsTempPath(p) == p.base[1] = "temp"

\* C32: an upload has one file on disk at a time.  The step of
\* moveToLibrary that relocates moves the temp file, it does not copy it:
\* afterwards the temp path does not exist and the library path holds the
\* file that was at the temp path, and no other path appears or goes; the
\* step that fails leaves the upload neither file.  A temp path is never a
\* library path.
C32_OneRepresentation ==
    [][\A u \in Uploads :
          LET temp == up[u].path
              video_file == libraryPath(up[u].hash, up[u].path)
          IN /\ Moves(u, "raw", "moved") =>
                  /\ IsTempPath(temp) /\ ~IsTempPath(video_file)
                  /\ ~Exists(fs', temp)
                  /\ Exists(fs', video_file)
                  /\ up'[u].path = video_file
                  /\ fs'[video_file] = fs[temp]
                  /\ DOMAIN fs' = ((DOMAIN fs) \ {temp}) \cup {video_file}
             /\ Moves(u, "raw", "aborted") =>
                  /\ ~Exists(fs', temp)
                  /\ ~Exists(fs', video_file)]_vars

\* An upload has just been relocated: its library file exists and no temp
\* file does.
C32_Witness ==
    \E u \in Uploads :
       /\ up[u].pc = "moved"
       /\ Exists(fs, up[u].path)
       /\ \A p \in DOMAIN fs : ~IsTempPath(p)

\* C33: temp files are created exclusively: the path saveToTemp creates
\* does not exist just before, and it is not the temp file of another
\* upload that is being received.
C33_TempCreatedExclusively ==
    [][\A u \in Uploads :
          Moves(u, "part", "receiving") =>
             /\ ~Exists(fs, up'[u].temp_file)
             /\ \A v \in Uploads \ {u} :
                   up[v].pc = "receiving" =>
                      up[v].temp_file # up'[u].temp_file]_vars

\* C34: a chunk is hashed before it is written, so what the file holds is
\* always a prefix of what was hashed, and when saveToTemp returns success
\* the temp file holds exactly the bytes that were hashed.
C34_SavedBytesAreHashedBytes ==
    [][\A u \in Uploads :
          /\ (up[u].pc = "receiving" /\ up'[u].pc = "receiving"
              /\ Exists(fs', up[u].temp_file)) =>
                \E k \in 0..Len(up'[u].hashed) :
                   fs'[up[u].temp_file].data = SubSeq(up'[u].hashed, 1, k)
          /\ Moves(u, "receiving", "raw") =>
                /\ Exists(fs', up'[u].path)
                /\ fs'[up'[u].path].data = up[u].hashed
                /\ up'[u].hash = Digest(fs'[up'[u].path].data)]_vars

\* C37: for every record, the one an upload holds after the probe and the
\* one of a row of the index, the path of the thumbnail differs from the
\* path of the media file.
C37_ThumbnailPathDiffers ==
    /\ \A u \in Uploads :
          up[u].pc \in {"probed", "thumbnailed"} =>
             expectedThumbnailPath(up[u].video) # videoPath(up[u].video)
    /\ \A r \in videos :
          WithExtension(Join(VideoDir, r.path), "webp") # Join(VideoDir, r.path)

\* The last call of validateSession, once there was one.
Validated == call.op = "app" /\ call.last.result # "none"

\* Was the token of the last call that of a session no older than the
\* life time?
Fresh ==
    /\ call.last.token # <<>>
    /\ call.last.age # <<>>
    /\ call.last.age[1] <= call.session_life_time_sec

Accepted(t) == Validated /\ call.last.token = <<t>> /\ call.last.result = "true"

Refused(t) == Validated /\ call.last.token = <<t>> /\ call.last.result = "error"

\* C35: when handleUpload has answered, OK or with a rejection, every
\* media file the request moved into the library directory that is still
\* there has a row in the index with its path.
C35_EveryPlacedFileHasRecord ==
    (/\ call.op = "app"
     /\ call.req.pc = "done"
     /\ call.req.response \in {"OK", "reject"})
    => \A p \in call.req.placed :
          Exists(fs, p) => \E r \in videos : Join(VideoDir, r.path) = p

\* C36: videoFromPart does not panic: a failure of Video::fromFile never
\* ends the handling of the request with the unwrap of an Err.
C36_ProbeFailureIsAnErrorValue ==
    call.op = "app" => call.req.response # "panic"

\* C38: validateSession answers Ok(true) exactly for the token of a session
\* whose age is at most session_life_time_sec, Ok(false) exactly for no
\* token, and an error for a token with no session or an older one; after
\* it ran with a token no older session is left; and a token that was
\* refused is never accepted afterwards.
C38_AcceptedWhileFresh ==
    /\ [](Validated =>
            /\ call.last.result = "true" <=> Fresh
            /\ call.last.result = "false" <=> call.last.token = <<>>
            /\ call.last.result = "error" <=> (call.last.token # <<>> /\ ~Fresh)
            /\ (call.last.token # <<>> /\ call.last.now = call.now) =>
                  \A s \in call.sessions :
                     call.now - s.auth_time <= call.session_life_time_sec)
    /\ \A t \in {IssuedToken, UnknownToken} : [](Refused(t) => []~Accepted(t))

\* The token of a login was validated one second after the end of its life
\* time, and refused.
C38_Witness ==
    /\ Refused(IssuedToken)
    /\ call.last.age = <<call.session_life_time_sec + 1>>
    /\ \A s \in call.sessions : s.token # IssuedToken

\* C39: handleUpload rejects a request whose token is absent, unknown or
\* expired before it reads a part, leaving the library directory and the
\* index as they were; parts are read and files placed only for the token
\* of a session within its life time.
C39_NoSessionNoChange ==
    [][/\ (call.op = "app" /\ call.req.pc = "idle" /\ call'.req.pc # "idle"
           /\ ~Fresh') =>
             /\ call'.req.pc = "done"
             /\ call'.req.response = "reject"
             /\ call'.req.results = <<>>
             /\ call'.req.placed = {}
             /\ fs' = fs
             /\ videos' = videos
       /\ (call'.op = "app" /\ call'.req.pc # "idle" /\ ~Fresh') =>
             /\ call'.req.results = <<>>
             /\ fs' = fs
             /\ videos' = videos]_vars

\* An upload with the token of an expired session was rejected, and the
\* library is still empty.
C39_Witness ==
    /\ call.op = "app"
    /\ call.req.pc = "done"
    /\ call.req.response = "reject"
    /\ call.req.token = <<IssuedToken>>
    /\ call.last.age # <<>>
    /\ call.last.age[1] > call.session_life_time_sec
    /\ fs = <<>>
    /\ videos = {}

ThumbCalls == {"generateThumbnail", "app_generateThumbnail"}

\* C8: the capture offset is the fixed 10 seconds exactly when the duration
\* is strictly greater than 30 seconds, and a third of the duration
\* otherwise; at exactly 30 seconds the one-third rule gives the offset.
C8_OffsetRule ==
    call.op \in ThumbCalls =>
       /\ call.rule = "fixed" <=> call.duration > 30000
       /\ call.rule = "fixed" => call.thumb_time_sec = 10000000
       /\ call.rule = "third" =>
             /\ 3 * call.thumb_time_sec <= call.duration * 1000
             /\ call.duration * 1000 < 3 * (call.thumb_time_sec + 1)
       /\ call.duration = 30000 => call.rule = "third"

\* The offset of a video of exactly 30 seconds was computed, by the
\* one-third rule.
C8_Witness ==
    /\ call.op \in ThumbCalls
    /\ call.duration = 30000
    /\ call.rule = "third"

\* C9: when saveToTemp fails on a stream error or a write error, the temp
\* file it created does not exist as the error is returned.
C9_FailedSaveRemovesTemp ==
    [][\A u \in Uploads :
          Moves(u, "receiving", "aborted") =>
             /\ up'[u].err \in {"ReadStream", "WriteTemp"}
             /\ ~Exists(fs', up[u].temp_file)]_vars

\* One upload failed on a stream error, the other on a write error.
C9_Witness ==
    \E u, v \in Uploads :
       /\ up[u].pc = "aborted" /\ up[u].err = "ReadStream"
       /\ up[v].pc = "aborted" /\ up[v].err = "WriteTemp"

\* C10 as stated: a part whose file name is empty or absent is rejected by
\* saveToTemp with the input error, and no file is created.
C10_EmptyOrAbsentNameRejected ==
    [][\A u \in Uploads :
          /\ up[u].pc = "part" /\ up'[u].pc # "part"
          /\ up[u].filename \in {NoFilename, EmptyName}
          => /\ up'[u].pc = "aborted" /\ up'[u].err = "NoFilename"
             /\ fs' = fs]_vars

\* C10 amended: a part whose file name is absent is rejected by saveToTemp
\* with the input error before any file is created; a part whose file name
\* is present and empty is not rejected for its name: saveToTemp goes on to
\* create the temp file, without an extension.
C10_AbsentNameRejected ==
    [][\A u \in Uploads :
          /\ up[u].pc = "part" /\ up'[u].pc # "part"
             /\ up[u].filename = NoFilename
             => /\ up'[u].pc = "aborted" /\ up'[u].err = "NoFilename"
                /\ fs' = fs
          /\ up[u].pc = "part" /\ up'[u].pc # "part"
             /\ up[u].filename = EmptyName
             => \/ up'[u].pc = "aborted" /\ up'[u].err = "OpenTemp" /\ fs' = fs
                \/ /\ up'[u].pc = "receiving"
                   /\ up'[u].temp_file.ext = ""
                   /\ Exists(fs', up'[u].temp_file)]_vars

\* One part without a file name was rejected, and one with the empty file
\* name is being received.
C10_Witness ==
    \E u, v \in Uploads :
       /\ up[u].pc = "aborted" /\ up[u].err = "NoFilename"
       /\ up[v].pc = "receiving" /\ up[v].filename = EmptyName
====
